---- MODULE Spec2Model ----
(***************************************************************************)
(* State-machine model of the DrawingEngine of                             *)
(* src/engines/drawing/DrawingEngine.ts (src/unnamed/part_001): the stroke *)
(* lifecycle, the layer model and the undo/redo history.                   *)
(*                                                                         *)
(* Units.  Pressure and velocity are held in tenths (0..10 for 0.0..1.0),  *)
(* brush size in hundredths (800 for 8.0), opacity in ten-thousandths      *)
(* (10000 for 1.0), the brush smoothing factor in tenths (8 for 0.8), a    *)
(* curve multiplier in hundredths (85 for 0.85).  With these units the     *)
(* arithmetic of the brush dynamics is exact on the values used; the       *)
(* rounding of IEEE doubles in the last bit is not modelled.  Stroke and layer ids are the value of    *)
(* the id counter they were generated from (the Date.now() part of the id  *)
(* string does not take part in any comparison the engine makes).          *)
(* Wall-clock fields (Stroke.timestamp, drawingStartTime, drawingTime) are *)
(* not modelled, nor are the fields no handler writes after construction   *)
(* (Layer.name/opacity/blendMode, CanvasState.zoom/panX/panY, the brush    *)
(* fields the stroke handlers do not read).  emit records the event and    *)
(* what a listener called at that moment reads from the engine.            *)
(*                                                                         *)
(* Object identity.  A history entry is a pair of the CanvasState data it  *)
(* holds and a flag `shared` telling whether the entry is the very object  *)
(* that this.canvasState refers to.  A write through this.canvasState      *)
(* (InPlace) is seen by every entry that shares the object; an assignment  *)
(* to this.canvasState (Replace) leaves such entries with the old object.  *)
(***************************************************************************)
EXTENDS Integers, Sequences, FiniteSets, TLC

VARIABLES
    canvasState,        \* DrawingEngine.canvasState
    currentStroke,      \* DrawingEngine.currentStroke (Null or a Stroke)
    isDrawing,          \* DrawingEngine.isDrawing
    activeBrush,        \* DrawingEngine.activeBrush
    history,            \* DrawingEngine.history
    historyIndex,       \* DrawingEngine.historyIndex
    strokeIdCounter,    \* DrawingEngine.strokeIdCounter
    layerIdCounter,     \* DrawingEngine.layerIdCounter
    performanceMetrics, \* DrawingEngine.performanceMetrics
    emitted,            \* events emitted by the last operation, in order
    observed,           \* what the listeners of each of these events saw
    listeners,          \* DrawingEngine.listeners: event -> callbacks, in order
    invoked,            \* the callbacks the last operation called, in order
    unsubscribers,      \* the unsubscribe functions on() has returned so far
    brushObjects,       \* the brush objects of the host and who shares them
    args,               \* arguments of the last call of a BrushSystem function
    lastOp,             \* name of the last operation called by the host
    result,             \* its return value (NoResult for a void operation)
    saves,              \* number of saveState() calls made since Init
    initializationState,        \* AppInitializer.initializationState
    initializationPromise,      \* AppInitializer.initializationPromise
    lastInitializationResult,   \* AppInitializer.lastInitializationResult
    failureCount,       \* AppInitializer.failureCount: system -> count
    flights,            \* the performInitialization() activations, in order
    initializeCalls,    \* what each initialize() call of the host returned
    cleanups            \* number of cleanup() calls made since Init

engineVars ==
    <<canvasState, currentStroke, isDrawing, activeBrush, history,
      historyIndex, strokeIdCounter, layerIdCounter, performanceMetrics,
      emitted, observed, listeners, invoked, unsubscribers, brushObjects,
      args, lastOp, result, saves>>

initializerVars ==
    <<initializationState, initializationPromise, lastInitializationResult,
      failureCount, flights, initializeCalls, cleanups>>

vars == <<engineVars, initializerVars>>

\* ------------------------------------------------------------------ bounds
MaxSaves == 3
MaxStrokes == 2
MaxPoints == 2
MaxLayers == 2
MaxLayerIds == 3
MaxListeners == 3
MaxDepth == 2
PreFill == 28
MaxCalls == 3
MaxCleanups == 1
PriorFailures == 4

\* ------------------------------------------------------- program constants
maxHistorySize == 30

\* DEFAULT_CONFIG of the app initializer.
retryAttempts == 3
circuitBreakerThreshold == 5

Null == [null |-> TRUE]
NoResult == "void"

\* No error has left the call.  Otherwise the thrown field of the engine
\* record names the error, and the call did not return.
NoError == "none"

\* The samples the host feeds to startStroke (pointer down) and to
\* addStrokePoint (pointer move).
StartInputs == { [x |-> 0, y |-> 0, pressure |-> 5, timestamp |-> 0] }
MoveInputs == { [x |-> 125, y |-> 0, pressure |-> 10, timestamp |-> 10] }

\* ------------------------------------------------------------ pure helpers
Min(a, b) == IF a < b THEN a ELSE b

Max(a, b) == IF a > b THEN a ELSE b

RECURSIVE SeqSum(_)
SeqSum(s) == IF s = <<>> THEN 0 ELSE Head(s) + SeqSum(Tail(s))

RECURSIVE Flatten(_)
Flatten(ss) == IF ss = <<>> THEN <<>> ELSE Head(ss) \o Flatten(Tail(ss))

\* Array.prototype.find over the layers: index of the first layer with the
\* given id, 0 when there is none.
FindLayer(layers, id) ==
    IF \E i \in 1..Len(layers) : layers[i].id = id
    THEN CHOOSE i \in 1..Len(layers) :
            /\ layers[i].id = id
            /\ \A j \in 1..(i - 1) : layers[j].id # id
    ELSE 0

getActiveLayer(cs) == FindLayer(cs.layers, cs.activeLayerId)

\* [...layers].sort((a, b) => a.order - b.order): a stable sort of a copy.
RECURSIVE SortByOrder(_)
SortByOrder(layers) ==
    IF layers = <<>> THEN <<>>
    ELSE LET rest == SortByOrder(SubSeq(layers, 1, Len(layers) - 1))
             last == layers[Len(layers)]
             before == SelectSeq(rest, LAMBDA l : l.order <= last.order)
             after == SelectSeq(rest, LAMBDA l : l.order > last.order)
         IN  before \o <<last>> \o after

getLayers(cs) == SortByOrder(cs.layers)

getAllStrokes(cs) == Flatten([i \in 1..Len(cs.layers) |-> cs.layers[i].strokes])

\* ------------------------------------------------------------ brush dynamics
\* Scales the whole size by the pressure, with no floor of a tenth.
calculateDynamicSize_FromZero(brush, pressure) ==
    LET baseSize == brush.size
    IN  IF ~brush.pressureSize THEN baseSize
        ELSE (baseSize * pressure) \div 10

calculateDynamicSize(brush, pressure) ==
    LET baseSize == brush.size
        minSize == baseSize \div 10
        maxSize == baseSize
    IN  IF ~brush.pressureSize THEN baseSize
        ELSE minSize + ((maxSize - minSize) * pressure) \div 10

calculateDynamicOpacity(brush, pressure) ==
    LET baseOpacity == brush.opacity
        minOpacity == baseOpacity \div 10
        maxOpacity == baseOpacity
    IN  IF ~brush.pressureOpacity THEN baseOpacity
        ELSE minOpacity + ((maxOpacity - minOpacity) * pressure) \div 10

\* Weighs the step towards the raw point by smoothingFactor instead of
\* 1 - smoothingFactor.
smoothPoint_WeightSwapped(brush, point, previousPoints) ==
    IF Len(previousPoints) = 0 THEN point
    ELSE LET last == previousPoints[Len(previousPoints)]
             smoothingFactor == brush.smoothing
         IN  [x |-> last.x + ((point.x - last.x) * smoothingFactor) \div 10,
              y |-> last.y + ((point.y - last.y) * smoothingFactor) \div 10,
              pressure |-> point.pressure,
              timestamp |-> point.timestamp]

smoothPoint(brush, point, previousPoints) ==
    IF Len(previousPoints) = 0 THEN point
    ELSE LET last == previousPoints[Len(previousPoints)]
             smoothingFactor == brush.smoothing
         IN  [x |-> last.x + ((point.x - last.x) * (10 - smoothingFactor)) \div 10,
              y |-> last.y + ((point.y - last.y) * (10 - smoothingFactor)) \div 10,
              pressure |-> point.pressure,
              timestamp |-> point.timestamp]

\* ------------------------------------------------------------ curve model
\* The multiplier curves of the catalog, in hundredths.
brushDynamics ==
    [smooth_round |->
        [pressureCurve |-> <<0, 10, 30, 50, 70, 85, 95, 100>>,
         velocityCurve |-> <<100, 95, 85, 70, 50, 30, 15, 10>>],
     hard_pencil |->
        [pressureCurve |-> <<0, 20, 40, 60, 75, 85, 92, 100>>,
         velocityCurve |-> <<100, 98, 95, 90, 85, 80, 75, 70>>],
     brush_pen |->
        [pressureCurve |-> <<0, 5, 15, 35, 60, 80, 92, 100>>,
         velocityCurve |-> <<100, 90, 75, 50, 30, 15, 8, 5>>]]

\* A number of the curve model: a size in ten-thousandths (a size in
\* hundredths times one multiplier), an opacity in hundred-millionths (an
\* opacity in ten-thousandths times two multipliers); NaN is what a product
\* with undefined gives.
Number(n) == [value |-> n]
NaN == [nan |-> TRUE]

\* Math.floor(value * (length - 1)) for a value in tenths.
BucketOf(value, length) == (value * (length - 1)) \div 10

\* curve[index] of a zero-based array: undefined outside it.
Defined(curve, index) == index + 1 \in DOMAIN curve

calculateBrushSize(baseSize, pressure, dynamics) ==
    LET pressureIndex == BucketOf(pressure, Len(dynamics.pressureCurve))
    IN  IF Defined(dynamics.pressureCurve, pressureIndex)
        THEN Number(baseSize * dynamics.pressureCurve[pressureIndex + 1])
        ELSE NaN

calculateBrushOpacity(baseOpacity, pressure, velocity, dynamics) ==
    LET pressureIndex == BucketOf(pressure, Len(dynamics.pressureCurve))
        velocityIndex == BucketOf(Min(velocity, 10), Len(dynamics.velocityCurve))
    IN  IF Defined(dynamics.pressureCurve, pressureIndex)
           /\ Defined(dynamics.velocityCurve, velocityIndex)
        THEN Number(baseOpacity * dynamics.pressureCurve[pressureIndex + 1]
                                * dynamics.velocityCurve[velocityIndex + 1])
        ELSE NaN

\* ------------------------------------------------------------ render objects
\* The path is a Skia handle holding the list of path commands.  A circle
\* radius is kept as size*pressure (the radius times 2000 in the units
\* above); the end point of a quadratic segment is kept doubled
\* (x2 = current.x + next.x).
createSkiaPath(brush, points) ==
    [commands |->
        IF Len(points) = 0 THEN <<>>
        ELSE IF Len(points) = 1
        THEN << [op |-> "addCircle", x |-> points[1].x, y |-> points[1].y,
                 r |-> brush.size * points[1].pressure] >>
        ELSE << [op |-> "moveTo", x |-> points[1].x, y |-> points[1].y] >>
             \o [i \in 1..(Len(points) - 2) |->
                    [op |-> "quadTo", cx |-> points[i + 1].x, cy |-> points[i + 1].y,
                     x2 |-> points[i + 1].x + points[i + 2].x,
                     y2 |-> points[i + 1].y + points[i + 2].y]]
             \o << [op |-> "lineTo", x |-> points[Len(points)].x,
                    y |-> points[Len(points)].y] >>]

createSkiaPaint(stroke) ==
    [color |-> stroke.color, alpha |-> stroke.opacity, strokeWidth |-> stroke.size,
     blendMode |-> IF stroke.tool = "eraser" THEN 2 ELSE 3]

\* ------------------------------------------------------------ JSON deep clone
\* JSON.parse(JSON.stringify(canvasState)): plain data is copied by value;
\* the Skia handles held in Stroke.path / Stroke.paint are host objects and
\* come back as plain objects that are no render handles any more.
JsonHandle == [json |-> TRUE]

JsonCloneStroke(s) == [s EXCEPT !.path = JsonHandle, !.paint = JsonHandle]

JsonCloneLayer(l) ==
    [l EXCEPT !.strokes = [k \in 1..Len(l.strokes) |-> JsonCloneStroke(l.strokes[k])]]

JsonClone(cs) ==
    [cs EXCEPT !.layers = [i \in 1..Len(cs.layers) |-> JsonCloneLayer(cs.layers[i])]]

\* A write into the object graph of this.canvasState (push, field
\* assignment): the graph becomes cs, for every holder of the object.
InPlace(e, cs) ==
    [e EXCEPT !.canvasState = cs,
              !.history = [i \in 1..Len(@) |->
                              IF @[i].shared THEN [@[i] EXCEPT !.state = cs]
                              ELSE @[i]]]

\* this.canvasState = cs with cs a fresh object: the entries that shared
\* the old object keep it, and it is no longer the live one.
Replace(e, cs) ==
    [e EXCEPT !.canvasState = cs,
              !.history = [i \in 1..Len(@) |-> [@[i] EXCEPT !.shared = FALSE]]]

\* ------------------------------------------------------------ engine record
\* The handlers below are functions from engine state to engine state, so
\* that a handler calling another one (startStroke -> endStroke, undo ->
\* restoreState) is the composition of the two.
Eng ==
    [canvasState |-> canvasState, currentStroke |-> currentStroke,
     isDrawing |-> isDrawing, activeBrush |-> activeBrush, history |-> history,
     historyIndex |-> historyIndex, strokeIdCounter |-> strokeIdCounter,
     layerIdCounter |-> layerIdCounter,
     performanceMetrics |-> performanceMetrics, emitted |-> <<>>,
     observed |-> <<>>, listeners |-> listeners, invoked |-> <<>>,
     unsubscribers |-> unsubscribers, brushObjects |-> brushObjects,
     args |-> Null, result |-> NoResult, saves |-> saves, room |-> MaxDepth,
     thrown |-> NoError]

\* The call ends in the engine state e; the host receives what the call
\* returned, or the error that left it.
Commit(e, op) ==
    /\ canvasState' = e.canvasState
    /\ currentStroke' = e.currentStroke
    /\ isDrawing' = e.isDrawing
    /\ activeBrush' = e.activeBrush
    /\ history' = e.history
    /\ historyIndex' = e.historyIndex
    /\ strokeIdCounter' = e.strokeIdCounter
    /\ layerIdCounter' = e.layerIdCounter
    /\ performanceMetrics' = e.performanceMetrics
    /\ emitted' = e.emitted
    /\ observed' = e.observed
    /\ listeners' = e.listeners
    /\ invoked' = e.invoked
    /\ unsubscribers' = e.unsubscribers
    /\ brushObjects' = e.brushObjects
    /\ args' = e.args
    /\ result' = (IF e.thrown # NoError THEN e.thrown ELSE e.result)
    /\ saves' = e.saves
    /\ lastOp' = op
    /\ UNCHANGED initializerVars

\* What a listener reads through isCurrentlyDrawing(), getCurrentStroke()
\* and getCanvasState() when it is called.
Observation(e) ==
    [isDrawing |-> e.isDrawing, currentStroke |-> e.currentStroke,
     canvasState |-> e.canvasState]

\* The callbacks the host registers.  A callback either returns or throws.
Callbacks == {"first", "second", "faulty"}

Throws(callback) == callback = "faulty"

\* The listeners Map of a new engine: no key at all.
NoListeners == [event \in {} |-> <<>>]

\* indexOf: index of the first occurrence, 0 when there is none.
IndexOf(array, callback) ==
    IF \E i \in 1..Len(array) : array[i] = callback
    THEN CHOOSE i \in 1..Len(array) :
            /\ array[i] = callback
            /\ \A j \in 1..(i - 1) : array[j] # callback
    ELSE 0

\* The closure on() returned for (event, callback): splices the first
\* occurrence of the callback out of the array of the event.
unsubscribe(e, event, callback) ==
    IF event \notin DOMAIN e.listeners THEN e
    ELSE LET array == e.listeners[event]
             index == IndexOf(array, callback)
         IN  IF index = 0 THEN e
             ELSE [e EXCEPT !.listeners[event] =
                      SubSeq(array, 1, index - 1) \o SubSeq(array, index + 1, Len(array))]

\* Callbacks that call back into the engine from inside the notification:
\* one calls endStroke(), the other startStroke(point).
ReentrantCallbacks == {"endsStroke", "startsStroke"}

\* Callbacks that call an unsubscribe function from inside the
\* notification: "once" calls its own, "evictor" calls the one returned for
\* the callback "first" of the same event.
UnsubscribingCallbacks == {"once", "evictor"}

\* The point a callback passes to startStroke.
CallbackPoint == [x |-> 0, y |-> 0, pressure |-> 5, timestamp |-> 0]

HasThrown(e) == e.thrown # NoError

Throw(e, name) == [e EXCEPT !.thrown = name]

RECURSIVE endStroke(_)
RECURSIVE startStroke(_, _)

\* What the body of the callback does to the engine.  A call into the
\* engine needs room on the stack (e.room nested calls are left); with none
\* left the call throws RangeError.
RunCallback(e, event, callback) ==
    IF Throws(callback) THEN Throw(e, "Error")
    ELSE IF callback = "once" THEN unsubscribe(e, event, "once")
    ELSE IF callback = "evictor"
    THEN (IF <<event, "first">> \in e.unsubscribers
          THEN unsubscribe(e, event, "first") ELSE e)
    ELSE IF callback \in ReentrantCallbacks
    THEN (IF e.room = 0 THEN Throw(e, "RangeError")
          ELSE LET inner == [e EXCEPT !.room = @ - 1]
                   back == IF callback = "endsStroke" THEN endStroke(inner)
                           ELSE startStroke(inner, CallbackPoint)
               IN  [back EXCEPT !.room = e.room])
    ELSE e

\* try { callback(data) } catch (error) { console.error(...) }: the call is
\* logged when it begins, and its outcome when it ends: "returned", or
\* "caught" (the error was logged and swallowed).  What the callback
\* returns is dropped.
Caught(e, slot, after) ==
    [after EXCEPT !.invoked[slot].outcome =
                      IF HasThrown(after) THEN "caught" ELSE "returned",
                  !.result = e.result,
                  !.thrown = NoError]

InvokeListener(e, event, callback, data) ==
    LET called == [e EXCEPT !.invoked = Append(@, [event |-> event,
                                                   callback |-> callback,
                                                   outcome |-> "running"])]
    IN  Caught(e, Len(e.invoked) + 1, RunCallback(called, event, callback))

\* eventListeners.forEach(...): the indices 1..len of the array as it was
\* when forEach began are visited in order; an index the array no longer
\* has when its turn comes is skipped.
RECURSIVE forEachListener(_, _, _, _, _)
forEachListener(e, event, data, k, len) ==
    IF k > len THEN e
    ELSE IF k > Len(e.listeners[event])
    THEN forEachListener(e, event, data, k + 1, len)
    ELSE forEachListener(InvokeListener(e, event, e.listeners[event][k], data),
                         event, data, k + 1, len)

\* Calls the callbacks of the event newest registration first.
emit_NewestFirst(e, event, data) ==
    LET e1 == [e EXCEPT !.emitted = Append(@, <<event, data>>),
                        !.observed = Append(@, Observation(e))]
        array == IF event \in DOMAIN e.listeners THEN e.listeners[event] ELSE <<>>
        calls == [k \in 1..Len(array) |->
                    LET callback == array[Len(array) + 1 - k]
                    IN  [event |-> event, callback |-> callback,
                         outcome |-> IF Throws(callback) THEN "caught"
                                     ELSE "returned"]]
    IN  [e1 EXCEPT !.invoked = @ \o calls]

\* Calls the callbacks without try/catch: the first one that throws ends
\* the forEach, and its error leaves emit uncaught.
emit_NoCatch(e, event, data) ==
    LET e1 == [e EXCEPT !.emitted = Append(@, <<event, data>>),
                        !.observed = Append(@, Observation(e))]
        array == IF event \in DOMAIN e.listeners THEN e.listeners[event] ELSE <<>>
        stop == IF \E k \in 1..Len(array) : Throws(array[k])
                THEN CHOOSE k \in 1..Len(array) :
                        /\ Throws(array[k])
                        /\ \A j \in 1..(k - 1) : ~Throws(array[j])
                ELSE Len(array)
        calls == [k \in 1..stop |->
                    [event |-> event, callback |-> array[k],
                     outcome |-> IF Throws(array[k]) THEN "uncaught"
                                 ELSE "returned"]]
    IN  [e1 EXCEPT !.invoked = @ \o calls]

\* The listeners run synchronously inside emit, on the state the handler
\* has built up to the call.
emit(e, event, data) ==
    LET e1 == [e EXCEPT !.emitted = Append(@, <<event, data>>),
                        !.observed = Append(@, Observation(e))]
    IN  IF event \in DOMAIN e.listeners
        THEN forEachListener(e1, event, data, 1, Len(e.listeners[event]))
        ELSE e1

\* on(event, callback): appends the callback to the array of the event,
\* creating the array first when the Map has no key for the event, and
\* returns the unsubscribe function, a closure over event and callback.
on(e, event, callback) ==
    LET had == IF event \in DOMAIN e.listeners THEN e.listeners[event] ELSE <<>>
    IN  [e EXCEPT !.listeners = [ev \in DOMAIN @ \cup {event} |->
                                    IF ev = event THEN Append(had, callback)
                                    ELSE @[ev]],
                  !.unsubscribers = @ \cup {<<event, callback>>},
                  !.result = <<event, callback>>]

updatePerformanceMetrics(e) ==
    LET allStrokes == getAllStrokes(e.canvasState)
        totalPoints == SeqSum([k \in 1..Len(allStrokes) |-> Len(allStrokes[k].points)])
    IN  [e EXCEPT !.performanceMetrics =
            [totalStrokes |-> Len(allStrokes),
             totalPoints |-> totalPoints,
             totalLayers |-> Len(e.canvasState.layers),
             memoryUsage |-> totalPoints * 32,
             \* totalPoints / allStrokes.length, kept as <<numerator, denominator>>
             averageStrokeLength |->
                IF Len(allStrokes) > 0 THEN <<totalPoints, Len(allStrokes)>>
                ELSE <<0, 1>>]]

\* ------------------------------------------------------------ history
\* Evicts the oldest entry but forgets historyIndex--.
saveState_NoShift(e) ==
    LET sliced == SubSeq(e.history, 1, e.historyIndex + 1)
        state == [state |-> JsonClone(e.canvasState), shared |-> FALSE]
        pushed == Append(sliced, state)
        index == e.historyIndex + 1
    IN  IF Len(pushed) > maxHistorySize
        THEN [e EXCEPT !.history = Tail(pushed), !.historyIndex = index,
                       !.saves = @ + 1]
        ELSE [e EXCEPT !.history = pushed, !.historyIndex = index,
                       !.saves = @ + 1]

\* Pushes this.canvasState itself instead of a deep clone of it.
saveState_ByReference(e) ==
    LET sliced == SubSeq(e.history, 1, e.historyIndex + 1)
        state == [state |-> e.canvasState, shared |-> TRUE]
        pushed == Append(sliced, state)
        index == e.historyIndex + 1
    IN  IF Len(pushed) > maxHistorySize
        THEN [e EXCEPT !.history = Tail(pushed), !.historyIndex = index - 1,
                       !.saves = @ + 1]
        ELSE [e EXCEPT !.history = pushed, !.historyIndex = index,
                       !.saves = @ + 1]

\* Pushes without dropping the entries beyond the current position.
saveState_NoTruncate(e) ==
    LET state == [state |-> JsonClone(e.canvasState), shared |-> FALSE]
        pushed == Append(e.history, state)
        index == e.historyIndex + 1
    IN  IF Len(pushed) > maxHistorySize
        THEN [e EXCEPT !.history = Tail(pushed), !.historyIndex = index - 1,
                       !.saves = @ + 1]
        ELSE [e EXCEPT !.history = pushed, !.historyIndex = index,
                       !.saves = @ + 1]

\* Pushes the snapshot but leaves historyIndex where it was.
saveState_KeepsPosition(e) ==
    LET sliced == SubSeq(e.history, 1, e.historyIndex + 1)
        state == [state |-> JsonClone(e.canvasState), shared |-> FALSE]
        pushed == Append(sliced, state)
    IN  IF Len(pushed) > maxHistorySize
        THEN [e EXCEPT !.history = Tail(pushed), !.saves = @ + 1]
        ELSE [e EXCEPT !.history = pushed, !.saves = @ + 1]

saveState(e) ==
    LET sliced == SubSeq(e.history, 1, e.historyIndex + 1)
        state == [state |-> JsonClone(e.canvasState), shared |-> FALSE]
        pushed == Append(sliced, state)
        index == e.historyIndex + 1
    IN  IF Len(pushed) > maxHistorySize
        THEN [e EXCEPT !.history = Tail(pushed), !.historyIndex = index - 1,
                       !.saves = @ + 1]
        ELSE [e EXCEPT !.history = pushed, !.historyIndex = index,
                       !.saves = @ + 1]

rebuildSkiaObjects(brush, cs) ==
    [cs EXCEPT !.layers =
        [i \in 1..Len(cs.layers) |->
            [cs.layers[i] EXCEPT !.strokes =
                [k \in 1..Len(cs.layers[i].strokes) |->
                    LET stroke == cs.layers[i].strokes[k]
                    IN  IF Len(stroke.points) > 0
                        THEN [stroke EXCEPT
                                !.path = createSkiaPath(brush, stroke.points),
                                !.paint = createSkiaPaint(stroke)]
                        ELSE stroke]]]]

\* Restores the layers only, by assignment to this.canvasState.layers.
restoreState_LayersOnly(e, state) ==
    LET restored == rebuildSkiaObjects(e.activeBrush, JsonClone(state.state))
    IN  emit(InPlace(e, [e.canvasState EXCEPT !.layers = restored.layers]),
             "canvas:restored", Null)

\* Ends the drawing session along with the restore.
restoreState_EndsSession(e, state) ==
    LET restored == rebuildSkiaObjects(e.activeBrush, JsonClone(state.state))
    IN  emit([Replace(e, restored) EXCEPT !.currentStroke = Null,
                                          !.isDrawing = FALSE],
             "canvas:restored", Null)

\* Installs the clone without rebuilding the render objects.
restoreState_NoRebuild(e, state) ==
    emit(Replace(e, JsonClone(state.state)), "canvas:restored", Null)

restoreState(e, state) ==
    LET restored == rebuildSkiaObjects(e.activeBrush, JsonClone(state.state))
    IN  emit(Replace(e, restored), "canvas:restored", Null)

\* Announces the undo before the guard.
undo_EmitsFirst(e) ==
    LET e0 == emit(e, "history:undo", e.historyIndex)
    IN  IF e.historyIndex <= 0 THEN [e0 EXCEPT !.result = FALSE]
        ELSE LET e1 == [e0 EXCEPT !.historyIndex = @ - 1]
                 e2 == restoreState(e1, e1.history[e1.historyIndex + 1])
             IN  [e2 EXCEPT !.result = TRUE]

undo(e) ==
    IF e.historyIndex <= 0 THEN [e EXCEPT !.result = FALSE]
    ELSE LET e1 == [e EXCEPT !.historyIndex = @ - 1]
             e2 == restoreState(e1, e1.history[e1.historyIndex + 1])
         IN  [emit(e2, "history:undo", e2.historyIndex) EXCEPT !.result = TRUE]

redo(e) ==
    IF e.historyIndex >= Len(e.history) - 1 THEN [e EXCEPT !.result = FALSE]
    ELSE LET e1 == [e EXCEPT !.historyIndex = @ + 1]
             e2 == restoreState(e1, e1.history[e1.historyIndex + 1])
         IN  [emit(e2, "history:redo", e2.historyIndex) EXCEPT !.result = TRUE]

\* ------------------------------------------------------------ drawing
\* Announces the completion before the guard.
endStroke_EmitsFirst(e) ==
    LET e0 == emit(e, "stroke:completed", Null)
    IN  IF ~e.isDrawing \/ e.currentStroke = Null THEN e0
        ELSE LET completed == [e.currentStroke EXCEPT !.completed = TRUE]
                 withPath == [completed EXCEPT
                                !.path = createSkiaPath(e.activeBrush, completed.points)]
                 stroke == [withPath EXCEPT !.paint = createSkiaPaint(withPath)]
                 activeLayer == getActiveLayer(e.canvasState)
                 e1 == IF activeLayer # 0
                       THEN InPlace(e, [e.canvasState EXCEPT
                                          !.layers[activeLayer].strokes = Append(@, stroke)])
                       ELSE e
                 e2 == updatePerformanceMetrics(e1)
                 e3 == emit(e2, "stroke:completed", stroke.id)
             IN  [e3 EXCEPT !.currentStroke = Null, !.isDrawing = FALSE]

\* Commits the stroke to the first layer of the canvas.
endStroke_FirstLayer(e) ==
    IF ~e.isDrawing \/ e.currentStroke = Null THEN e
    ELSE LET completed == [e.currentStroke EXCEPT !.completed = TRUE]
             withPath == [completed EXCEPT
                            !.path = createSkiaPath(e.activeBrush, completed.points)]
             stroke == [withPath EXCEPT !.paint = createSkiaPaint(withPath)]
             e1 == InPlace(e, [e.canvasState EXCEPT
                                 !.layers[1].strokes = Append(@, stroke)])
             e2 == updatePerformanceMetrics(e1)
             e3 == emit(e2, "stroke:completed", stroke.id)
         IN  [e3 EXCEPT !.currentStroke = Null, !.isDrawing = FALSE]

\* Commits the stroke but stays Drawing with it as the current stroke.
endStroke_KeepsCurrent(e) ==
    IF ~e.isDrawing \/ e.currentStroke = Null THEN e
    ELSE LET completed == [e.currentStroke EXCEPT !.completed = TRUE]
             withPath == [completed EXCEPT
                            !.path = createSkiaPath(e.activeBrush, completed.points)]
             stroke == [withPath EXCEPT !.paint = createSkiaPaint(withPath)]
             activeLayer == getActiveLayer(e.canvasState)
             e1 == IF activeLayer # 0
                   THEN InPlace(e, [e.canvasState EXCEPT
                                      !.layers[activeLayer].strokes = Append(@, stroke)])
                   ELSE e
             e2 == updatePerformanceMetrics(e1)
         IN  emit(e2, "stroke:completed", stroke.id)

\* After the emit the handler logs this.currentStroke.id: when a listener
\* has left the engine without a current stroke, that read throws TypeError
\* and the two assignments that follow are not made.
LogAndReset(e) ==
    IF e.currentStroke = Null
    THEN Throw(e, "TypeError")
    ELSE [e EXCEPT !.currentStroke = Null, !.isDrawing = FALSE]

endStroke(e) ==
    IF ~e.isDrawing \/ e.currentStroke = Null THEN e
    ELSE LET completed == [e.currentStroke EXCEPT !.completed = TRUE]
             withPath == [completed EXCEPT
                            !.path = createSkiaPath(e.activeBrush, completed.points)]
             stroke == [withPath EXCEPT !.paint = createSkiaPaint(withPath)]
             activeLayer == getActiveLayer(e.canvasState)
             e1 == IF activeLayer # 0
                   THEN InPlace(e, [e.canvasState EXCEPT
                                      !.layers[activeLayer].strokes = Append(@, stroke)])
                   ELSE e
             e2 == updatePerformanceMetrics(e1)
         IN  LogAndReset(emit(e2, "stroke:completed", stroke.id))

\* Begins the new stroke without ending the one in progress.
startStroke_NoAutoEnd(e, point) ==
    LET activeLayer == getActiveLayer(e.canvasState)
    IN  IF activeLayer = 0 \/ e.canvasState.layers[activeLayer].locked THEN e
        ELSE LET id == e.strokeIdCounter + 1
                 bare == [id |-> id,
                          points |-> <<point>>,
                          color |-> "#000000",
                          size |-> calculateDynamicSize(e.activeBrush, point.pressure),
                          opacity |-> calculateDynamicOpacity(e.activeBrush, point.pressure),
                          tool |-> "brush",
                          brushId |-> e.activeBrush.id,
                          completed |-> FALSE,
                          path |-> Null,
                          paint |-> Null]
                 withPath == [bare EXCEPT
                                !.path = createSkiaPath(e.activeBrush, bare.points)]
                 stroke == [withPath EXCEPT !.paint = createSkiaPaint(withPath)]
                 e1 == [e EXCEPT !.strokeIdCounter = id,
                                 !.currentStroke = stroke,
                                 !.isDrawing = TRUE]
                 e2 == saveState(e1)
             IN  emit(e2, "stroke:started", stroke.id)

\* startStroke once the stroke in progress, if any, has been ended.
BeginStroke(e, point) ==
    LET activeLayer == getActiveLayer(e.canvasState)
    IN  IF HasThrown(e) THEN e
        ELSE IF activeLayer = 0 \/ e.canvasState.layers[activeLayer].locked THEN e
        ELSE LET id == e.strokeIdCounter + 1
                 bare == [id |-> id,
                          points |-> <<point>>,
                          color |-> "#000000",
                          size |-> calculateDynamicSize(e.activeBrush, point.pressure),
                          opacity |-> calculateDynamicOpacity(e.activeBrush, point.pressure),
                          tool |-> "brush",
                          brushId |-> e.activeBrush.id,
                          completed |-> FALSE,
                          path |-> Null,
                          paint |-> Null]
                 withPath == [bare EXCEPT
                                !.path = createSkiaPath(e.activeBrush, bare.points)]
                 stroke == [withPath EXCEPT !.paint = createSkiaPaint(withPath)]
                 e1 == [e EXCEPT !.strokeIdCounter = id,
                                 !.currentStroke = stroke,
                                 !.isDrawing = TRUE]
                 e2 == saveState(e1)
             IN  emit(e2, "stroke:started", stroke.id)

startStroke(e0, point) ==
    BeginStroke(IF e0.isDrawing THEN endStroke(e0) ELSE e0, point)

\* Overwrites the newest point instead of appending to the points.
addStrokePoint_ReplacesLast(e, point) ==
    IF ~e.isDrawing \/ e.currentStroke = Null THEN e
    ELSE LET smoothedPoint == smoothPoint(e.activeBrush, point, e.currentStroke.points)
             points == [e.currentStroke.points EXCEPT ![Len(e.currentStroke.points)] = smoothedPoint]
             stroke == [e.currentStroke EXCEPT
                          !.points = points,
                          !.size = calculateDynamicSize(e.activeBrush, smoothedPoint.pressure),
                          !.opacity = calculateDynamicOpacity(e.activeBrush, smoothedPoint.pressure),
                          !.path = createSkiaPath(e.activeBrush, points)]
         IN  emit([e EXCEPT !.currentStroke = stroke], "stroke:updated", stroke.id)

addStrokePoint(e, point) ==
    IF ~e.isDrawing \/ e.currentStroke = Null THEN e
    ELSE LET smoothedPoint == smoothPoint(e.activeBrush, point, e.currentStroke.points)
             points == Append(e.currentStroke.points, smoothedPoint)
             stroke == [e.currentStroke EXCEPT
                          !.points = points,
                          !.size = calculateDynamicSize(e.activeBrush, smoothedPoint.pressure),
                          !.opacity = calculateDynamicOpacity(e.activeBrush, smoothedPoint.pressure),
                          !.path = createSkiaPath(e.activeBrush, points)]
         IN  emit([e EXCEPT !.currentStroke = stroke], "stroke:updated", stroke.id)

\* ------------------------------------------------------------ layers
\* Gives every layer the order of the default layer.
createLayer_OrderZero(e) ==
    LET id == e.layerIdCounter + 1
        layer == [id |-> id, strokes |-> <<>>, visible |-> TRUE, locked |-> FALSE,
                  order |-> 0]
        e1 == InPlace([e EXCEPT !.layerIdCounter = id],
                      [e.canvasState EXCEPT !.layers = Append(@, layer)])
    IN  [emit(e1, "layer:created", id) EXCEPT !.result = id]

createLayer(e) ==
    LET id == e.layerIdCounter + 1
        layer == [id |-> id, strokes |-> <<>>, visible |-> TRUE, locked |-> FALSE,
                  order |-> Len(e.canvasState.layers)]
        e1 == InPlace([e EXCEPT !.layerIdCounter = id],
                      [e.canvasState EXCEPT !.layers = Append(@, layer)])
    IN  [emit(e1, "layer:created", id) EXCEPT !.result = id]

\* Activates the id without looking it up.
setActiveLayer_Unchecked(e, layerId) ==
    [emit(InPlace(e, [e.canvasState EXCEPT !.activeLayerId = layerId]),
          "layer:activated", layerId) EXCEPT !.result = TRUE]

setActiveLayer(e, layerId) ==
    IF FindLayer(e.canvasState.layers, layerId) = 0 THEN [e EXCEPT !.result = FALSE]
    ELSE [emit(InPlace(e, [e.canvasState EXCEPT !.activeLayerId = layerId]),
               "layer:activated", layerId) EXCEPT !.result = TRUE]

\* ------------------------------------------------------------ clear
\* Empties the stroke lists first and takes the checkpoint afterwards.
clearCanvas_ClearsFirst(e) ==
    LET e1 == InPlace(e, [e.canvasState EXCEPT !.layers =
                            [i \in 1..Len(@) |-> [@[i] EXCEPT !.strokes = <<>>]]])
        e2 == saveState(e1)
    IN  emit(updatePerformanceMetrics(e2), "canvas:cleared", Null)

clearCanvas(e) ==
    LET e1 == saveState(e)
        e2 == InPlace(e1, [e1.canvasState EXCEPT !.layers =
                              [i \in 1..Len(@) |-> [@[i] EXCEPT !.strokes = <<>>]]])
    IN  emit(updatePerformanceMetrics(e2), "canvas:cleared", Null)

\* Empties the stroke list of every layer.
clearActiveLayer_ClearsAll(e) ==
    LET activeLayer == getActiveLayer(e.canvasState)
    IN  IF activeLayer = 0 THEN [e EXCEPT !.result = FALSE]
        ELSE LET e1 == saveState(e)
                 e2 == InPlace(e1, [e1.canvasState EXCEPT !.layers =
                              [i \in 1..Len(@) |-> [@[i] EXCEPT !.strokes = <<>>]]])
             IN  [emit(updatePerformanceMetrics(e2), "layer:cleared",
                       e.canvasState.layers[activeLayer].id) EXCEPT !.result = TRUE]

clearActiveLayer(e) ==
    LET activeLayer == getActiveLayer(e.canvasState)
    IN  IF activeLayer = 0 THEN [e EXCEPT !.result = FALSE]
        ELSE LET e1 == saveState(e)
                 e2 == InPlace(e1, [e1.canvasState EXCEPT
                                      !.layers[activeLayer].strokes = <<>>])
             IN  [emit(updatePerformanceMetrics(e2), "layer:cleared",
                       e.canvasState.layers[activeLayer].id) EXCEPT !.result = TRUE]

\* ------------------------------------------------------------ canvas
setBackgroundColor(e, color) ==
    emit(InPlace(e, [e.canvasState EXCEPT !.backgroundColor = color]),
         "canvas:background_changed", color)

setCanvasSize(e, width, height) ==
    emit(InPlace(e, [e.canvasState EXCEPT !.width = width, !.height = height]),
         "canvas:resized", <<width, height>>)

\* ------------------------------------------------------------ initial state
\* (the brush handlers follow the initial state, whose presets they use)
DefaultBrush ==
    [id |-> "default_smooth", size |-> 800, opacity |-> 10000,
     pressureSize |-> TRUE, pressureOpacity |-> TRUE, smoothing |-> 8]

\* Entries of defaultBrushes (their settings), and two brushes the host made
\* with createBrush: one that does not smooth and one that smooths fully.
Presets ==
    [id \in {"fine_liner", "brush_pen", "airbrush", "custom_raw", "custom_still"} |->
        CASE id = "fine_liner" ->
                [id |-> id, size |-> 300, opacity |-> 10000,
                 pressureSize |-> FALSE, pressureOpacity |-> FALSE, smoothing |-> 9]
          [] id = "brush_pen" ->
                [id |-> id, size |-> 1200, opacity |-> 9500,
                 pressureSize |-> TRUE, pressureOpacity |-> TRUE, smoothing |-> 6]
          [] id = "airbrush" ->
                [id |-> id, size |-> 4000, opacity |-> 3000,
                 pressureSize |-> TRUE, pressureOpacity |-> TRUE, smoothing |-> 2]
          [] id = "custom_raw" ->
                [id |-> id, size |-> 1000, opacity |-> 10000,
                 pressureSize |-> TRUE, pressureOpacity |-> TRUE, smoothing |-> 0]
          [] id = "custom_still" ->
                [id |-> id, size |-> 1000, opacity |-> 10000,
                 pressureSize |-> TRUE, pressureOpacity |-> TRUE, smoothing |-> 10]]

\* No object is shared.
NoObject == "none"

\* The brush objects the host holds: the presets, and the object the last
\* getActiveBrush() returned (Null before the first call).  activeIs names
\* the preset that this.activeBrush is the very object of, handoutIsActive
\* tells whether the returned object is this.activeBrush itself.
HostBrushes ==
    [presets |-> Presets, activeIs |-> NoObject,
     handout |-> Null, handoutIsActive |-> FALSE]

\* canvasState after the constructor ran initializeDefaultLayer().
InitialCanvas ==
    [layers |-> << [id |-> 1, strokes |-> <<>>, visible |-> TRUE,
                    locked |-> FALSE, order |-> 0] >>,
     activeLayerId |-> 1,
     width |-> 1024, height |-> 768, backgroundColor |-> "#FFFFFF"]

InitialMetrics ==
    [totalStrokes |-> 0, totalPoints |-> 0, totalLayers |-> 0,
     memoryUsage |-> 0, averageStrokeLength |-> <<0, 1>>]

\* ------------------------------------------------------------ brush
\* A write to a field of this.activeBrush: the object becomes brush, for
\* everybody who holds it.
BrushInPlace(e, brush) ==
    LET objects == e.brushObjects
    IN  [e EXCEPT !.activeBrush = brush,
                  !.brushObjects =
                      [objects EXCEPT
                          !.presets = IF objects.activeIs # NoObject
                                      THEN [@ EXCEPT ![objects.activeIs] = brush]
                                      ELSE @,
                          !.handout = IF objects.handoutIsActive THEN brush ELSE @]]

\* Keeps the object it is given as the active brush.
setBrush_ByReference(e, preset) ==
    LET e1 == [e EXCEPT !.activeBrush = e.brushObjects.presets[preset],
                        !.brushObjects.activeIs = preset,
                        !.brushObjects.handoutIsActive = FALSE]
    IN  emit(e1, "brush:changed", preset)

\* this.activeBrush = { ...brush }: a new object with the fields of the one
\* given (all of them primitive values).
setBrush(e, preset) ==
    LET e1 == [e EXCEPT !.activeBrush = e.brushObjects.presets[preset],
                        !.brushObjects.activeIs = NoObject,
                        !.brushObjects.handoutIsActive = FALSE]
    IN  emit(e1, "brush:changed", preset)

setBrushSize(e, size) ==
    LET e1 == BrushInPlace(e, [e.activeBrush EXCEPT !.size = Max(100, Min(10000, size))])
    IN  emit(e1, "brush:size_changed", e1.activeBrush.size)

setBrushOpacity(e, opacity) ==
    LET e1 == BrushInPlace(e, [e.activeBrush EXCEPT
                                  !.opacity = Max(0, Min(10000, opacity))])
    IN  emit(e1, "brush:opacity_changed", e1.activeBrush.opacity)

\* Returns this.activeBrush itself.
getActiveBrush_Live(e) ==
    [e EXCEPT !.brushObjects.handout = e.activeBrush,
              !.brushObjects.handoutIsActive = TRUE,
              !.result = e.activeBrush]

\* return { ...this.activeBrush }: the host receives a new object.
getActiveBrush(e) ==
    [e EXCEPT !.brushObjects.handout = e.activeBrush,
              !.brushObjects.handoutIsActive = FALSE,
              !.result = e.activeBrush]

\* The host assigns to a field of the object getActiveBrush() returned.
mutateReturnedBrush(e, size) ==
    IF e.brushObjects.handoutIsActive
    THEN BrushInPlace(e, [e.activeBrush EXCEPT !.size = size])
    ELSE [e EXCEPT !.brushObjects.handout.size = size]

\* ------------------------------------------------------- app initializer
\* AppInitializer (src/utils/appInitializer.ts) starts the systems of the
\* app one after the other.  initialize(), performInitialization() and
\* initializeSystem() are async: each `await` is a point where the host may
\* call initialize() or cleanup() again, so an activation is a record with a
\* position `pc` and every step between two awaits is one action.
\*
\* The systems started.  Of the seventeen systems of the source the model
\* starts one critical system, which hasMinimalRequiredSystems requires, and
\* one non-critical system, in the order of the source.  The init function
\* of either may throw or run into the timeout.
Systems ==
    << [name |-> "DataManager", isCritical |-> TRUE],
       [name |-> "BrushSystem", isCritical |-> FALSE] >>

SystemNames == {Systems[i].name : i \in DOMAIN Systems}

requiredSystems ==
    {"ErrorHandler", "DataManager", "EventBus", "DrawingEngine", "LessonEngine"}

\* The systems that are not among Systems count as started.
hasMinimalRequiredSystems(initialized) ==
    \A system \in requiredSystems \cap SystemNames :
        \E i \in DOMAIN initialized : initialized[i] = system

\* initializationPromise = null
NoPromise == 0

maxRetries_Critical(isCritical) == retryAttempts

maxRetries(isCritical) == IF isCritical THEN retryAttempts ELSE 1

\* A performInitialization() activation that has started no system yet.
\* `entry`, `invocations` and `failures` record, for each system, the
\* failure count its initializeSystem call read (-1 before the call), how
\* often the call invoked the init function and how many of these attempts
\* failed.
NewFlight ==
    [pc |-> "init", system |-> 1, attempt |-> 0, failureCount |-> 0,
     initializedSystems |-> <<>>, failedSystems |-> <<>>, warnings |-> <<>>,
     entry |-> [s \in SystemNames |-> -1],
     invocations |-> [s \in SystemNames |-> 0],
     failures |-> [s \in SystemNames |-> 0],
     result |-> Null]

\* initializeSystem up to its first await, for the system flight.system and
\* the failure counts fc: the circuit breaker refuses the system, and
\* performInitialization goes on to the next one in the same step, or the
\* init function is invoked for the first time.  After the last system the
\* activation awaits the health check, the final setup and the metrics.
RECURSIVE initializeSystem(_, _)
initializeSystem(fc, flight) ==
    IF flight.system > Len(Systems)
    THEN [flight EXCEPT !.pc = "finalSetup"]
    ELSE LET systemName == Systems[flight.system].name
             count == fc[systemName]
             entered == [flight EXCEPT !.entry[systemName] = count,
                                       !.failureCount = count,
                                       !.attempt = 0]
         IN  IF count >= circuitBreakerThreshold
             THEN initializeSystem(fc,
                      [entered EXCEPT !.failedSystems = Append(@, systemName),
                                      !.system = @ + 1])
             ELSE [entered EXCEPT !.pc = "init",
                                  !.invocations[systemName] = @ + 1]

\* The attempt of the activation settles: the init function returned
\* (ok), or it threw or the timeout won the race.  The catch block writes
\* the count read at the start of the call plus one.
settle(fc, flight, ok) ==
    LET system == Systems[flight.system]
        systemName == system.name
    IN  IF ok
        THEN [fc |-> [fc EXCEPT ![systemName] = 0],
              flight |-> initializeSystem([fc EXCEPT ![systemName] = 0],
                             [flight EXCEPT
                                 !.initializedSystems = Append(@, systemName),
                                 !.system = @ + 1])]
        ELSE LET counted == [fc EXCEPT ![systemName] = flight.failureCount + 1]
                 failed == [flight EXCEPT !.failures[systemName] = @ + 1]
             IN  IF flight.attempt < maxRetries(system.isCritical)
                 THEN [fc |-> counted,
                       flight |-> [failed EXCEPT !.pc = "delay"]]
                 ELSE [fc |-> counted,
                       flight |-> initializeSystem(counted,
                           IF system.isCritical
                           THEN [failed EXCEPT
                                    !.failedSystems = Append(@, systemName),
                                    !.system = @ + 1]
                           ELSE [failed EXCEPT
                                    !.warnings = Append(@, systemName),
                                    !.system = @ + 1])]

\* The delay before the next attempt is over: the loop invokes the init
\* function again.
retry(flight) ==
    [flight EXCEPT !.attempt = @ + 1,
                   !.pc = "init",
                   !.invocations[Systems[flight.system].name] = @ + 1]

\* What performInitialization returns.
InitializationResult(id, flight) ==
    [success |-> \/ flight.failedSystems = <<>>
                 \/ hasMinimalRequiredSystems(flight.initializedSystems),
     initializedSystems |-> flight.initializedSystems,
     failedSystems |-> flight.failedSystems,
     flight |-> id]

isReady ==
    /\ initializationState = "completed"
    /\ lastInitializationResult # Null
    /\ lastInitializationResult.success

\* The initializer as the constructor leaves it.
NewInitializer ==
    /\ initializationState = "pending"
    /\ initializationPromise = NoPromise
    /\ lastInitializationResult = Null
    /\ failureCount = [s \in SystemNames |-> 0]
    /\ flights = <<>>
    /\ initializeCalls = <<>>
    /\ cleanups = 0

\* A round in which every attempt fails: the activation from its first
\* attempt to the end of its last initializeSystem call.
RECURSIVE AllAttemptsFail(_)
AllAttemptsFail(round) ==
    IF round.flight.pc = "finalSetup" THEN round
    ELSE IF round.flight.pc = "delay"
    THEN AllAttemptsFail([round EXCEPT !.flight = retry(@)])
    ELSE AllAttemptsFail(settle(round.fc, round.flight, FALSE))

RECURSIVE FailedRounds(_)
FailedRounds(n) ==
    IF n = 0
    THEN [fc |-> [s \in SystemNames |-> 0], flight |-> NewFlight]
    ELSE LET fc == FailedRounds(n - 1).fc
         IN  AllAttemptsFail([fc |-> fc, flight |-> initializeSystem(fc, NewFlight)])

\* The initializer after PriorFailures initialize() calls, each made after
\* the one before had returned and each with all attempts of both systems
\* failing.  The activation of the last of these calls is kept as
\* activation 1; those before it are over and left nothing but their
\* failure counts.
WornInitializer ==
    LET last == FailedRounds(PriorFailures)
        initResult == InitializationResult(1, last.flight)
    IN  /\ initializationState = "failed"
        /\ initializationPromise = 1
        /\ lastInitializationResult = initResult
        /\ failureCount = last.fc
        /\ flights = << [last.flight EXCEPT !.pc = "done", !.result = initResult] >>
        /\ initializeCalls = << [promise |-> 1, value |-> Null, started |-> TRUE] >>
        /\ cleanups = 0

\* initialize(): the host receives the promise in flight, the cached
\* result, or the promise of a new performInitialization() activation,
\* which runs up to its first await before initialize() awaits it.
Initialize ==
    /\ Len(initializeCalls) < MaxCalls
    /\ IF initializationPromise # NoPromise
          /\ initializationState = "initializing"
       THEN /\ initializeCalls' =
                   Append(initializeCalls, [promise |-> initializationPromise,
                                            value |-> Null, started |-> FALSE])
            /\ UNCHANGED <<initializationState, initializationPromise, flights>>
       ELSE IF isReady
       THEN /\ initializeCalls' =
                   Append(initializeCalls, [promise |-> NoPromise,
                                            value |-> lastInitializationResult,
                                            started |-> FALSE])
            /\ UNCHANGED <<initializationState, initializationPromise, flights>>
       ELSE /\ initializationState' = "initializing"
            /\ flights' = Append(flights, initializeSystem(failureCount, NewFlight))
            /\ initializationPromise' = Len(flights) + 1
            /\ initializeCalls' =
                   Append(initializeCalls, [promise |-> Len(flights) + 1,
                                            value |-> Null, started |-> TRUE])
    /\ UNCHANGED <<lastInitializationResult, failureCount, cleanups>>
    /\ UNCHANGED engineVars

\* The race of an init function and its timeout settles.
Settle ==
    \E id \in DOMAIN flights, ok \in BOOLEAN :
        /\ flights[id].pc = "init"
        /\ LET after == settle(failureCount, flights[id], ok)
           IN  /\ failureCount' = after.fc
               /\ flights' = [flights EXCEPT ![id] = after.flight]
        /\ UNCHANGED <<initializationState, initializationPromise,
                       lastInitializationResult, initializeCalls, cleanups>>
        /\ UNCHANGED engineVars

\* The timer of a retry delay fires.
Retry ==
    \E id \in DOMAIN flights :
        /\ flights[id].pc = "delay"
        /\ flights' = [flights EXCEPT ![id] = retry(@)]
        /\ UNCHANGED <<initializationState, initializationPromise,
                       lastInitializationResult, failureCount,
                       initializeCalls, cleanups>>
        /\ UNCHANGED engineVars

\* performInitialization returns its result, and the initialize() call that
\* started it resumes after its await: it sets the state and caches the
\* result.
Complete ==
    \E id \in DOMAIN flights :
        /\ flights[id].pc = "finalSetup"
        /\ LET initResult == InitializationResult(id, flights[id])
           IN  /\ flights' = [flights EXCEPT ![id].pc = "done",
                                             ![id].result = initResult]
               /\ initializationState' =
                      IF initResult.success THEN "completed" ELSE "failed"
               /\ lastInitializationResult' = initResult
        /\ UNCHANGED <<initializationPromise, failureCount, initializeCalls,
                       cleanups>>
        /\ UNCHANGED engineVars

\* cleanup(): the cleanup callbacks touch no field of the initializer; the
\* reset follows them.
Cleanup ==
    /\ cleanups < MaxCleanups
    /\ cleanups' = cleanups + 1
    /\ initializationState' = "pending"
    /\ initializationPromise' = NoPromise
    /\ lastInitializationResult' = Null
    /\ failureCount' = [s \in SystemNames |-> 0]
    /\ UNCHANGED <<flights, initializeCalls>>
    /\ UNCHANGED engineVars

\* The engine as the constructor leaves it.
Fresh ==
    [canvasState |-> InitialCanvas, currentStroke |-> Null, isDrawing |-> FALSE,
     activeBrush |-> DefaultBrush, history |-> <<>>, historyIndex |-> -1,
     strokeIdCounter |-> 0, layerIdCounter |-> 1,
     performanceMetrics |-> InitialMetrics, emitted |-> <<>>,
     observed |-> <<>>, listeners |-> NoListeners, invoked |-> <<>>,
     unsubscribers |-> {}, brushObjects |-> HostBrushes, args |-> Null,
     result |-> NoResult, saves |-> 0, room |-> MaxDepth,
     thrown |-> NoError]

\* The engine is in state e, reached by the call op.
IsState(e, op) ==
    /\ canvasState = e.canvasState
    /\ currentStroke = e.currentStroke
    /\ isDrawing = e.isDrawing
    /\ activeBrush = e.activeBrush
    /\ history = e.history
    /\ historyIndex = e.historyIndex
    /\ strokeIdCounter = e.strokeIdCounter
    /\ layerIdCounter = e.layerIdCounter
    /\ performanceMetrics = e.performanceMetrics
    /\ emitted = e.emitted
    /\ observed = e.observed
    /\ listeners = e.listeners
    /\ invoked = e.invoked
    /\ unsubscribers = e.unsubscribers
    /\ brushObjects = e.brushObjects
    /\ args = e.args
    /\ result = e.result
    /\ saves = e.saves
    /\ lastOp = op

Init == IsState(Fresh, "new") /\ NewInitializer

InitWorn == IsState(Fresh, "new") /\ WornInitializer

\* ------------------------------------------------------------ actions
\* A call that takes a checkpoint is only made while the budget lasts.
ActiveUnlocked ==
    LET activeLayer == getActiveLayer(canvasState)
    IN  activeLayer # 0 /\ ~canvasState.layers[activeLayer].locked

StartStrokeFrom(inputs) ==
    \E point \in inputs :
        /\ ActiveUnlocked => (saves < MaxSaves /\ strokeIdCounter < MaxStrokes)
        /\ Commit(startStroke(Eng, point), "startStroke")

StartStroke == StartStrokeFrom(StartInputs)

AddStrokePointFrom(inputs) ==
    \E point \in inputs :
        /\ currentStroke # Null => Len(currentStroke.points) < MaxPoints
        /\ Commit(addStrokePoint(Eng, point), "addStrokePoint")

AddStrokePoint == AddStrokePointFrom(MoveInputs)

\* Pointer samples of every kind of pressure, the values a device may
\* report outside [0, 1] included, and moves of more than one direction.
PressureInputs ==
    {[x |-> 0, y |-> 0, pressure |-> p, timestamp |-> 0] : p \in {-5, 0, 10}}

PressureMoves ==
    {[x |-> 1000, y |-> -500, pressure |-> 3, timestamp |-> 10],
     [x |-> -200, y |-> 300, pressure |-> 15, timestamp |-> 20]}

StartStrokeAtPressure == StartStrokeFrom(PressureInputs)

AddStrokePointAtPressure == AddStrokePointFrom(PressureMoves)

EndStroke == Commit(endStroke(Eng), "endStroke")

Undo == Commit(undo(Eng), "undo")

Redo == Commit(redo(Eng), "redo")

\* undo() can take a layer away but never an id back: the canvas holds at
\* most MaxLayers layers, out of at most MaxLayerIds ids ever generated.
CreateLayer ==
    /\ Len(canvasState.layers) < MaxLayers
    /\ layerIdCounter < MaxLayerIds
    /\ Commit(createLayer(Eng), "createLayer")

SetActiveLayer ==
    \E layerId \in 1..MaxLayerIds :
        Commit(setActiveLayer(Eng, layerId), "setActiveLayer")

ClearCanvas ==
    /\ saves < MaxSaves
    /\ Commit(clearCanvas(Eng), "clearCanvas")

ClearActiveLayer ==
    /\ saves < MaxSaves
    /\ Commit(clearActiveLayer(Eng), "clearActiveLayer")

SetBackgroundColor ==
    \E color \in {"#FFFFFF", "#000000"} :
        Commit(setBackgroundColor(Eng, color), "setBackgroundColor")

SetCanvasSize ==
    \E size \in {<<1024, 768>>, <<800, 600>>} :
        Commit(setCanvasSize(Eng, size[1], size[2]), "setCanvasSize")

\* The host toggles the lock of a layer (spec 4.4); the engine hands out its
\* live Layer objects, so the toggle is a write to Layer.locked.
SetLayerLocked ==
    \E i \in 1..Len(canvasState.layers) :
        Commit(InPlace(Eng, [canvasState EXCEPT !.layers[i].locked = ~@]),
               "setLayerLocked")

SetBrushFrom(names) ==
    \E preset \in names :
        Commit(setBrush(Eng, preset), "setBrush")

SetBrush == SetBrushFrom(DOMAIN Presets)

\* A brush that ignores pressure and one that follows it.
SetDynamicsBrush == SetBrushFrom({"fine_liner", "airbrush"})

\* The two brushes at the ends of the smoothing range and one inside it.
SetSmoothingBrush == SetBrushFrom({"custom_raw", "custom_still", "brush_pen"})

SetBrushSize ==
    \E size \in {50, 2500, 20000} :
        Commit(setBrushSize(Eng, size), "setBrushSize")

SetBrushOpacity ==
    \E opacity \in {-1000, 5000, 20000} :
        Commit(setBrushOpacity(Eng, opacity), "setBrushOpacity")

GetActiveBrush == Commit(getActiveBrush(Eng), "getActiveBrush")

MutateReturnedBrush ==
    /\ brushObjects.handout # Null
    /\ \E size \in {700, 9900} :
          Commit(mutateReturnedBrush(Eng, size), "mutateReturnedBrush")

\* The samples the curve model is asked about: pressures and velocities in
\* tenths, inside [0, 1] and beyond it.
CurveSamples ==
    {[pressure |-> p, velocity |-> v] : p \in -1..11, v \in {-5, 0, 3, 5, 10, 20}}

\* The host asks for the size of the mark of a sample.
CalculateBrushSize ==
    \E baseSize \in {300, 1200}, point \in CurveSamples, id \in DOMAIN brushDynamics :
        Commit([Eng EXCEPT
                  !.args = [base |-> baseSize, point |-> point, dynamics |-> id],
                  !.result = calculateBrushSize(baseSize, point.pressure,
                                                brushDynamics[id])],
               "calculateBrushSize")

\* The host asks for the opacity of the mark of a sample.
CalculateBrushOpacity ==
    \E baseOpacity \in {9500, 10000}, point \in CurveSamples, id \in DOMAIN brushDynamics :
        Commit([Eng EXCEPT
                  !.args = [base |-> baseOpacity, point |-> point, dynamics |-> id],
                  !.result = calculateBrushOpacity(baseOpacity, point.pressure,
                                                   point.velocity, brushDynamics[id])],
               "calculateBrushOpacity")

\* The events the host subscribes to.
ListenEvents == {"stroke:completed", "canvas:restored"}

\* The number of callbacks registered, over all events.
TotalListeners ==
    LET RECURSIVE Total(_)
        Total(events) ==
            IF events = {} THEN 0
            ELSE LET ev == CHOOSE x \in events : TRUE
                 IN  Len(listeners[ev]) + Total(events \ {ev})
    IN  Total(DOMAIN listeners)

OnFrom(events, callbacks) ==
    \E event \in events : \E callback \in callbacks :
        /\ TotalListeners < MaxListeners
        /\ Commit(on(Eng, event, callback), "on")

On == OnFrom(ListenEvents, Callbacks)

\* The host subscribes callbacks that call back into the engine.
OnReentrant == OnFrom({"stroke:completed"}, ReentrantCallbacks)

\* The host subscribes callbacks that unsubscribe while they are notified,
\* next to callbacks that only return.
OnUnsubscribing ==
    OnFrom({"stroke:completed"}, UnsubscribingCallbacks \cup {"first", "second"})

\* The host calls one of the unsubscribe functions it holds.
Unsubscribe ==
    \E u \in unsubscribers :
        Commit([unsubscribe(Eng, u[1], u[2]) EXCEPT !.args = u], "unsubscribe")

\* The host toggles the visibility of a layer (spec 4.4), again a write to
\* a live Layer object: Layer.visible.
SetLayerVisible ==
    \E i \in 1..Len(canvasState.layers) :
        Commit(InPlace(Eng, [canvasState EXCEPT !.layers[i].visible = ~@]),
               "setLayerVisible")

\* Strokes, clears and the history on the default layer.
Next ==
    \/ StartStroke
    \/ AddStrokePoint
    \/ EndStroke
    \/ Undo
    \/ Redo
    \/ ClearCanvas
    \/ ClearActiveLayer

Spec == Init /\ [][Next]_vars

\* The same with layers created and activated in between.
NextLayers ==
    \/ StartStroke
    \/ AddStrokePoint
    \/ EndStroke
    \/ Undo
    \/ Redo
    \/ CreateLayer
    \/ SetActiveLayer
    \/ ClearCanvas
    \/ ClearActiveLayer

SpecLayers == Init /\ [][NextLayers]_vars

\* The stroke lifecycle over several layers.
NextStroke ==
    \/ StartStroke
    \/ AddStrokePoint
    \/ EndStroke
    \/ CreateLayer
    \/ SetActiveLayer

SpecStroke == Init /\ [][NextStroke]_vars

\* The stroke lifecycle under layer switches and lock toggles.
NextLock ==
    \/ StartStroke
    \/ AddStrokePoint
    \/ EndStroke
    \/ CreateLayer
    \/ SetActiveLayer
    \/ SetLayerLocked

SpecLock == Init /\ [][NextLock]_vars

\* A long-lived engine: one stroke drawn and PreFill - 1 clearCanvas() calls
\* made, so that the history is two checkpoints short of maxHistorySize.
\* The first clearCanvas() checkpoints the canvas with the stroke on it, each
\* later one pushes one more snapshot of the cleared canvas.
LongLived ==
    LET once == clearCanvas(endStroke(startStroke(Fresh, CHOOSE p \in StartInputs : TRUE)))
        again == [state |-> JsonClone(once.canvasState), shared |-> FALSE]
    IN  [once EXCEPT !.history = @ \o [i \in 1..(PreFill - 2) |-> again],
                     !.historyIndex = PreFill - 1,
                     !.saves = 0,
                     !.emitted = << <<"canvas:cleared", Null>> >>,
                     !.observed = << Observation(once) >>]

InitHist == IsState(LongLived, "clearCanvas") /\ NewInitializer

NextHist ==
    \/ StartStroke
    \/ EndStroke
    \/ ClearCanvas
    \/ Undo
    \/ Redo

SpecHist == InitHist /\ [][NextHist]_vars

\* The same operations from the new engine and from the long-lived one.
SpecPosition == (Init \/ InitHist) /\ [][NextHist]_vars

\* Undo and redo over every part of the CanvasState: strokes, layers, the
\* active layer, the canvas size and the background colour.
NextCanvas ==
    \/ StartStroke
    \/ EndStroke
    \/ Undo
    \/ Redo
    \/ CreateLayer
    \/ SetActiveLayer
    \/ SetBackgroundColor
    \/ SetCanvasSize

SpecCanvas == Init /\ [][NextCanvas]_vars

\* Layers created and activated between strokes, undo and redo.
NextOrder ==
    \/ StartStroke
    \/ EndStroke
    \/ Undo
    \/ Redo
    \/ CreateLayer
    \/ SetActiveLayer

SpecOrder == Init /\ [][NextOrder]_vars

\* Strokes on layers that are shown and hidden.
NextVisible ==
    \/ StartStroke
    \/ EndStroke
    \/ CreateLayer
    \/ SetActiveLayer
    \/ SetLayerVisible

SpecVisible == Init /\ [][NextVisible]_vars

\* Strokes and undo with listeners subscribed and unsubscribed in between.
NextEvents ==
    \/ On
    \/ Unsubscribe
    \/ StartStroke
    \/ EndStroke
    \/ Undo

SpecEvents == Init /\ [][NextEvents]_vars

\* The active brush chosen, tweaked, handed out and written to by the host.
NextBrush ==
    \/ SetBrush
    \/ SetBrushSize
    \/ SetBrushOpacity
    \/ GetActiveBrush
    \/ MutateReturnedBrush

SpecBrush == Init /\ [][NextBrush]_vars

\* Strokes drawn with several brushes at several pressures.
NextDynamics ==
    \/ SetDynamicsBrush
    \/ StartStrokeAtPressure
    \/ AddStrokePointAtPressure
    \/ EndStroke

SpecDynamics == Init /\ [][NextDynamics]_vars

\* The curve model asked about samples of every kind.
NextCurves ==
    \/ CalculateBrushSize
    \/ CalculateBrushOpacity

SpecCurves == Init /\ [][NextCurves]_vars

\* Strokes drawn with brushes of several smoothing factors.
NextSmooth ==
    \/ SetSmoothingBrush
    \/ StartStroke
    \/ AddStrokePointAtPressure
    \/ EndStroke

SpecSmooth == Init /\ [][NextSmooth]_vars

\* Strokes completed while callbacks that call back into the engine listen.
NextReentry ==
    \/ OnReentrant
    \/ StartStroke
    \/ AddStrokePoint
    \/ EndStroke

SpecReentry == Init /\ [][NextReentry]_vars

\* Strokes completed while callbacks that unsubscribe listen.
NextSubs ==
    \/ OnUnsubscribing
    \/ Unsubscribe
    \/ StartStroke
    \/ EndStroke

SpecSubs == Init /\ [][NextSubs]_vars

\* Strokes on several layers and the two clears.
NextClear ==
    \/ StartStroke
    \/ EndStroke
    \/ CreateLayer
    \/ SetActiveLayer
    \/ ClearCanvas
    \/ ClearActiveLayer

SpecClear == Init /\ [][NextClear]_vars

\* The app initializer: initialize() and cleanup() calls of the host and the
\* steps of the activations in flight.
NextInitializer ==
    \/ Initialize
    \/ Settle
    \/ Retry
    \/ Complete
    \/ Cleanup

SpecInitializer == Init /\ [][NextInitializer]_vars

\* The same initializer with failures behind it and no cleanup() call.
NextBreaker ==
    \/ Initialize
    \/ Settle
    \/ Retry
    \/ Complete

SpecBreaker == InitWorn /\ [][NextBreaker]_vars

\* Every race of an init function and its timeout settles, by the timeout
\* at the latest, and the timer of every retry delay fires.
LiveBreaker == SpecBreaker /\ WF_vars(Settle) /\ WF_vars(Retry)

\* ------------------------------------------------------------ properties
\* The semantic data of a CanvasState: everything but the render handles.
StripStroke(s) ==
    [id |-> s.id, points |-> s.points, color |-> s.color, size |-> s.size,
     opacity |-> s.opacity, tool |-> s.tool, brushId |-> s.brushId,
     completed |-> s.completed]

SemanticData(cs) ==
    [cs EXCEPT !.layers =
        [i \in 1..Len(cs.layers) |->
            [cs.layers[i] EXCEPT !.strokes =
                [k \in 1..Len(cs.layers[i].strokes) |->
                    StripStroke(cs.layers[i].strokes[k])]]]]

StrokeIds(cs) ==
    LET all == getAllStrokes(cs) IN [k \in 1..Len(all) |-> all[k].id]

\* C1: on a fresh engine with stroke 1 and stroke 2 drawn and completed on
\* the one unlocked layer (both checkpoints taken, no undo made yet), undo()
\* returns true and leaves exactly stroke 1 on the canvas.
C1_UndoLeavesStroke1 ==
    [][(/\ lastOp' = "undo"
        /\ ~isDrawing
        /\ layerIdCounter = 1
        /\ strokeIdCounter = 2
        /\ StrokeIds(canvasState) = <<1, 2>>
        /\ Len(history) = 2
        /\ historyIndex = 1)
       => (result' = TRUE /\ StrokeIds(canvasState') = <<1>>)]_vars

\* C2: undo() called above position 0 returns true and moves the position
\* down by one, redo() called below the newest position returns true and
\* moves it up by one, and in both cases the semantic data of the live
\* CanvasState equals that of the snapshot at the new position.
LiveMatchesSnapshot ==
    SemanticData(canvasState) = SemanticData(history[historyIndex + 1].state)

C2_RestoreMatchesSnapshot ==
    [][/\ (lastOp' = "undo" /\ historyIndex > 0)
            => (/\ result' = TRUE
                /\ historyIndex' = historyIndex - 1
                /\ LiveMatchesSnapshot')
       /\ (lastOp' = "redo" /\ historyIndex < Len(history) - 1)
            => (/\ result' = TRUE
                /\ historyIndex' = historyIndex + 1
                /\ LiveMatchesSnapshot')]_vars

C2_Witness ==
    /\ lastOp = "redo"
    /\ result = TRUE
    /\ historyIndex = 1
    /\ StrokeIds(canvasState) = <<1>>
    /\ Len(canvasState.layers) = 2
    /\ canvasState.activeLayerId = 2
    /\ canvasState.backgroundColor = "#000000"
    /\ canvasState.width = 800

\* C3: undo() at position 0 or with an empty history, and redo() at the
\* newest position, return false, leave the CanvasState, the history, the
\* position and the drawing state unchanged and emit nothing.
RefusedUnchanged ==
    /\ result' = FALSE
    /\ emitted' = <<>>
    /\ UNCHANGED <<canvasState, history, historyIndex, isDrawing, currentStroke>>

C3_RefusedUndoRedo ==
    [][/\ (lastOp' = "undo" /\ historyIndex <= 0) => RefusedUnchanged
       /\ (lastOp' = "redo" /\ historyIndex >= Len(history) - 1) => RefusedUnchanged]_vars

C3_Witness ==
    /\ lastOp = "undo"
    /\ result = FALSE
    /\ historyIndex = 0
    /\ StrokeIds(canvasState) = <<1>>

\* C4: the history never holds more than maxHistorySize entries; a checkpoint
\* taken with the stack full and the position at its top evicts the oldest
\* entry and leaves the position on the entry just pushed, which holds the
\* CanvasState as it was when the checkpoint was taken.
\* (startStroke first ends a stroke in progress, then takes the checkpoint.)
CheckpointedCanvas ==
    IF lastOp' = "startStroke" THEN endStroke(Eng).canvasState ELSE canvasState

C4_HistoryBounded ==
    /\ [](Len(history) <= maxHistorySize)
    /\ [][(/\ saves' = saves + 1
            /\ Len(history) = maxHistorySize
            /\ historyIndex = maxHistorySize - 1)
           => (/\ Len(history') = maxHistorySize
               /\ historyIndex' = maxHistorySize - 1
               /\ SubSeq(history', 1, maxHistorySize - 1) = Tail(history)
               /\ history'[historyIndex' + 1].state = JsonClone(CheckpointedCanvas))]_vars

\* The entry that was second in the initial history is now the oldest one.
C4_Witness ==
    /\ Len(history) = maxHistorySize
    /\ historyIndex = maxHistorySize - 1
    /\ StrokeIds(history[1].state) = <<1>>
    /\ saves > 0

\* C5: no live operation changes the data held by a history entry that
\* stays on the stack, whether the entry was just pushed or was restored
\* from before; the entry pushed by a clear holds the canvas as it was
\* before the clear.
LiveOps ==
    {"addStrokePoint", "endStroke", "clearCanvas", "clearActiveLayer",
     "createLayer", "setActiveLayer"}

C5_SnapshotsIndependent ==
    [][lastOp' \in LiveOps =>
        IF saves' = saves
        THEN /\ Len(history') = Len(history)
             /\ \A i \in 1..Len(history) : history'[i].state = history[i].state
        ELSE /\ \A i \in 1..(historyIndex + 1) :
                    history'[i].state = history[i].state
             /\ history'[historyIndex' + 1].state = JsonClone(canvasState)]_vars

\* An entry was restored by undo, and the live canvas has been changed since.
C5_Witness ==
    /\ lastOp \in LiveOps
    /\ historyIndex < Len(history) - 1
    /\ SemanticData(canvasState) # SemanticData(history[historyIndex + 1].state)

\* C6: a checkpoint taken below the newest position drops every entry
\* beyond the position, so that afterwards the position is on the newest
\* entry and redo() returns false.
C6_CheckpointTruncatesRedo ==
    [][(saves' = saves + 1 /\ historyIndex < Len(history) - 1)
       => (/\ Len(history') = historyIndex + 2
           /\ historyIndex' = Len(history') - 1
           /\ \A i \in 1..(historyIndex + 1) : history'[i] = history[i]
           /\ redo(Eng').result = FALSE
           /\ redo(Eng').canvasState = canvasState')]_vars

\* Three checkpoints were taken and the stack holds two entries.
C6_Witness ==
    /\ lastOp \in {"startStroke", "clearCanvas", "clearActiveLayer"}
    /\ saves = 3
    /\ Len(history) = 2
    /\ historyIndex = 1

\* C7: the stroke list of a layer whose locked flag is true does not change.
C7_LockedLayerAcceptsNoStroke ==
    [][\A i \in 1..Len(canvasState.layers) :
         canvasState.layers[i].locked
            => canvasState'.layers[i].strokes = canvasState.layers[i].strokes]_vars

\* C8: startStroke called with the active layer locked or missing changes
\* nothing, emits nothing and leaves the engine not drawing.
C8_StartOnLockedIsNoop ==
    [][(lastOp' = "startStroke" /\ ~ActiveUnlocked)
       => (/\ UNCHANGED <<canvasState, history, historyIndex, strokeIdCounter>>
           /\ emitted' = <<>>
           /\ currentStroke' = Null
           /\ ~isDrawing')]_vars

\* C9: startStroke called while Drawing on an unlocked active layer appends
\* the stroke in progress, completed and with all its points, once to the
\* active layer (and changes no other layer), emits stroke:completed for it and then stroke:started for
\* the new stroke, which has a fresh id and the one given point.
KnownStrokeIds ==
    {currentStroke.id}
    \cup {getAllStrokes(canvasState)[k].id : k \in 1..Len(getAllStrokes(canvasState))}
    \cup UNION {{getAllStrokes(history[i].state)[k].id :
                    k \in 1..Len(getAllStrokes(history[i].state))} :
                i \in 1..Len(history)}

C9_StartWhileDrawing ==
    [][(lastOp' = "startStroke" /\ isDrawing /\ ActiveUnlocked)
       => LET a == getActiveLayer(canvasState)
              before == canvasState.layers[a].strokes
              after == canvasState'.layers[a].strokes
          IN  /\ Len(after) = Len(before) + 1
              /\ SubSeq(after, 1, Len(before)) = before
              /\ after[Len(after)].id = currentStroke.id
              /\ after[Len(after)].points = currentStroke.points
              /\ after[Len(after)].completed
              /\ Len(canvasState'.layers) = Len(canvasState.layers)
              /\ \A i \in 1..Len(canvasState.layers) :
                    i # a => canvasState'.layers[i] = canvasState.layers[i]
              /\ canvasState' = endStroke(Eng).canvasState
              /\ emitted' = << <<"stroke:completed", currentStroke.id>>,
                               <<"stroke:started", currentStroke'.id>> >>
              /\ isDrawing'
              /\ currentStroke'.id \notin KnownStrokeIds
              /\ \E point \in StartInputs : currentStroke'.points = <<point>>
              /\ ~currentStroke'.completed]_vars

\* Stroke 1, two points long, was committed to layer 2 by the startStroke
\* that began stroke 2.
C9_Witness ==
    /\ lastOp = "startStroke"
    /\ isDrawing
    /\ currentStroke.id = 2
    /\ emitted = << <<"stroke:completed", 1>>, <<"stroke:started", 2>> >>
    /\ Len(canvasState.layers) = 2
    /\ canvasState.activeLayerId = 2
    /\ canvasState.layers[1].strokes = <<>>
    /\ Len(canvasState.layers[2].strokes) = 1
    /\ Len(canvasState.layers[2].strokes[1].points) = 2

\* C10: addStrokePoint and endStroke called while the engine is not Drawing
\* change nothing (the current stroke stays null) and emit nothing.
C10_IdleCallsAreNoops ==
    [][(lastOp' \in {"addStrokePoint", "endStroke"} /\ ~isDrawing)
       => (/\ currentStroke = Null
           /\ UNCHANGED <<canvasState, history, historyIndex, currentStroke,
                          isDrawing, strokeIdCounter>>
           /\ emitted' = <<>>)]_vars

\* endStroke was called a second time after a stroke had been committed.
C10_Witness ==
    /\ lastOp = "endStroke"
    /\ emitted = <<>>
    /\ ~isDrawing
    /\ StrokeIds(canvasState) = <<1>>

\* The strokes held by the layers of a CanvasState (their data, without the
\* render handles), as a set.
StrokesOf(cs) == {StripStroke(getAllStrokes(cs)[k]) : k \in 1..Len(getAllStrokes(cs))}

\* The strokes held by the live canvas or by any history entry.
StoredStrokes ==
    StrokesOf(canvasState) \cup UNION {StrokesOf(history[i].state) : i \in 1..Len(history)}

\* C11: an addStrokePoint accepted while Drawing appends exactly one point
\* to the current stroke; as long as a stroke stays the current one its
\* points only grow; the stroke is committed with exactly the points it had;
\* a committed stroke keeps its points under every later operation, and the
\* copies of it that clear, undo and redo remove or bring back carry the
\* same points.
C11_PointsGrowThenFreeze ==
    /\ [](\A s \in StoredStrokes : \A t \in StoredStrokes :
            s.id = t.id => (s.points = t.points /\ s.completed /\ t.completed))
    /\ [][/\ (lastOp' = "addStrokePoint" /\ isDrawing)
               => (/\ currentStroke'.id = currentStroke.id
                   /\ Len(currentStroke'.points) = Len(currentStroke.points) + 1)
          /\ (currentStroke # Null /\ currentStroke' # Null
                 /\ currentStroke'.id = currentStroke.id)
               => (/\ Len(currentStroke'.points) >= Len(currentStroke.points)
                   /\ SubSeq(currentStroke'.points, 1, Len(currentStroke.points))
                         = currentStroke.points)
          /\ currentStroke # Null
               => (\A t \in StrokesOf(canvasState') :
                     (t.id = currentStroke.id) => (t.points = currentStroke.points))
          /\ \A s \in StrokesOf(canvasState) : \A t \in StrokesOf(canvasState') :
                 s.id = t.id => t.points = s.points]_vars

\* Stroke 1, two points long, was cleared away, and undo and redo brought
\* it back.
C11_Witness ==
    /\ lastOp = "redo"
    /\ result = TRUE
    /\ StrokeIds(canvasState) = <<1>>
    /\ Len(getAllStrokes(canvasState)[1].points) = 2
    /\ getAllStrokes(canvasState)[1].completed

\* k calls of addStrokePoint, one for each sample of moves.
RECURSIVE AddPoints(_, _)
AddPoints(e, moves) ==
    IF moves = <<>> THEN e
    ELSE AddPoints(addStrokePoint(e, Head(moves)), Tail(moves))

\* The layers of cs other than the one at index a are the same in cs2.
OtherLayersSame(cs, cs2, a) ==
    /\ Len(cs2.layers) = Len(cs.layers)
    /\ \A i \in 1..Len(cs.layers) : i # a => cs2.layers[i] = cs.layers[i]

\* The active layer of cs2 holds the strokes it holds in cs and then one
\* completed stroke with n points.
OneStrokeAppended(cs, cs2, a, n) ==
    LET before == cs.layers[a].strokes
        after == cs2.layers[a].strokes
    IN  /\ Len(after) = Len(before) + 1
        /\ SubSeq(after, 1, Len(before)) = before
        /\ after[Len(after)].completed
        /\ Len(after[Len(after)].points) = n

\* C12: from Idle with the active layer unlocked, startStroke(p0), k calls
\* of addStrokePoint and endStroke(), with nothing in between, append
\* exactly one completed stroke of k+1 points at the end of the active
\* layer's stroke list and leave every other layer as it was, and
\* getLayers() lists the layers in the order of creation.  Step by step:
\* startStroke and addStrokePoint leave every stroke list alone, and
\* endStroke appends the current stroke to the active layer only.
C12_OneStrokePerSequence ==
    /\ []((~isDrawing /\ ActiveUnlocked) =>
            \A p0 \in StartInputs : \A k \in 0..(MaxPoints - 1) :
            \A moves \in [1..k -> MoveInputs] :
                LET e == endStroke(AddPoints(startStroke(Eng, p0), moves))
                    a == getActiveLayer(canvasState)
                IN  /\ OneStrokeAppended(canvasState, e.canvasState, a, k + 1)
                    /\ OtherLayersSame(canvasState, e.canvasState, a)
                    /\ ~e.isDrawing
                    /\ [i \in 1..Len(e.canvasState.layers) |-> getLayers(e.canvasState)[i].id]
                          = [i \in 1..Len(canvasState.layers) |-> canvasState.layers[i].id])
    /\ [][/\ (lastOp' = "startStroke" /\ ~isDrawing)
               => canvasState'.layers = canvasState.layers
          /\ (lastOp' = "addStrokePoint")
               => canvasState'.layers = canvasState.layers
          /\ (lastOp' = "endStroke" /\ isDrawing)
               => LET a == getActiveLayer(canvasState)
                  IN  /\ OneStrokeAppended(canvasState, canvasState', a,
                                           Len(currentStroke.points))
                      /\ OtherLayersSame(canvasState, canvasState', a)]_vars

\* Layers A and B exist, B is active, and a stroke of two points was just
\* committed: it is on B, and A holds nothing.
C12_Witness ==
    /\ lastOp = "endStroke"
    /\ emitted = << <<"stroke:completed", 1>> >>
    /\ Len(canvasState.layers) = 2
    /\ [i \in 1..2 |-> getLayers(canvasState)[i].id] = <<1, 2>>
    /\ canvasState.activeLayerId = 2
    /\ Len(canvasState.layers[2].strokes) = 1
    /\ Len(canvasState.layers[2].strokes[1].points) = 2
    /\ canvasState.layers[2].strokes[1].completed
    /\ Len(canvasState.layers[1].strokes) = 0

\* C13: every stroke held by a layer of the live canvas is completed, has
\* at least one point, and carries the render path and the paint that
\* createSkiaPath and createSkiaPaint build from its data - as committed by
\* endStroke and as rebuilt when undo() or redo() brings the stroke back.
C13_CommittedStrokesRenderable ==
    \A k \in 1..Len(getAllStrokes(canvasState)) :
        LET s == getAllStrokes(canvasState)[k]
        IN  /\ s.completed
            /\ Len(s.points) > 0
            /\ s.path # Null
            /\ s.paint # Null
            /\ s.path = createSkiaPath(activeBrush, s.points)
            /\ s.paint = createSkiaPaint(s)

\* A stroke of two points is on the canvas again after undo and redo.
C13_Witness ==
    /\ lastOp = "redo"
    /\ result = TRUE
    /\ historyIndex > 0
    /\ Len(getAllStrokes(canvasState)) > 0
    /\ \E k \in 1..Len(getAllStrokes(canvasState)) :
            Len(getAllStrokes(canvasState)[k].points) = 2

\* C14: no stroke id occurs twice in the stroke lists of the live canvas
\* (neither in two layers nor twice in one), and while Drawing the current
\* stroke is in no stroke list.
C14_StrokeHasOneOwner ==
    LET ids == StrokeIds(canvasState)
    IN  /\ \A j \in 1..Len(ids) : \A k \in 1..Len(ids) : ids[j] = ids[k] => j = k
        /\ isDrawing =>
              (/\ currentStroke # Null
               /\ \A k \in 1..Len(ids) : ids[k] # currentStroke.id)

\* Stroke 2 is being drawn on layer 2 after an undo and a redo, with stroke
\* 1 committed on layer 1.
C14_Witness ==
    /\ isDrawing
    /\ lastOp = "redo"
    /\ currentStroke.id = 2
    /\ Len(canvasState.layers) = 2
    /\ canvasState.activeLayerId = 2
    /\ StrokeIds(canvasState) = <<1>>

\* C15: a listener of stroke:completed finds the stroke on the canvas, the
\* engine Idle (isCurrentlyDrawing() false) and no current stroke
\* (getCurrentStroke() null).
C15_CompletedSeenFromIdle ==
    [][\A i \in 1..Len(emitted') :
         emitted'[i][1] = "stroke:completed"
            => (/\ emitted'[i][2] \in
                      {s.id : s \in StrokesOf(observed'[i].canvasState)}
                /\ ~observed'[i].isDrawing
                /\ observed'[i].currentStroke = Null)]_vars

\* cs2 is cs with the stroke lists of the layers at the indices in cleared
\* emptied and nothing else changed.
ClearedOf(cs, cleared) ==
    [cs EXCEPT !.layers =
        [i \in 1..Len(cs.layers) |->
            IF i \in cleared THEN [cs.layers[i] EXCEPT !.strokes = <<>>]
            ELSE cs.layers[i]]]

\* C16: after clearCanvas() and after clearActiveLayer() the history entry
\* at the current position holds the CanvasState as it was before the call,
\* the strokes that were removed included; the live canvas is the canvas
\* before the call with the stroke list of every layer (clearCanvas) or of
\* the active layer only (clearActiveLayer) emptied; and the one event of
\* the call, canvas:cleared or layer:cleared, is emitted on the cleared
\* canvas.
C16_ClearCheckpointsFirst ==
    [][/\ lastOp' = "clearCanvas"
            => (/\ SemanticData(history'[historyIndex' + 1].state)
                      = SemanticData(canvasState)
                /\ canvasState' = ClearedOf(canvasState, 1..Len(canvasState.layers))
                /\ emitted' = << <<"canvas:cleared", Null>> >>
                /\ observed'[1].canvasState = canvasState')
       /\ lastOp' = "clearActiveLayer"
            => (/\ result' = TRUE
                /\ SemanticData(history'[historyIndex' + 1].state)
                      = SemanticData(canvasState)
                /\ canvasState' = ClearedOf(canvasState, {getActiveLayer(canvasState)})
                /\ emitted' = << <<"layer:cleared", canvasState.activeLayerId>> >>
                /\ observed'[1].canvasState = canvasState')]_vars

\* clearActiveLayer() was called with a stroke on each of two layers: the
\* checkpoint holds both strokes, layer 1 kept its stroke.
C16_Witness ==
    /\ lastOp = "clearActiveLayer"
    /\ Len(canvasState.layers) = 2
    /\ canvasState.activeLayerId = 2
    /\ StrokeIds(canvasState) = <<1>>
    /\ StrokeIds(history[historyIndex + 1].state) = <<1, 2>>

\* C17: clearActiveLayer() leaves every layer but the active one exactly as
\* it was: the same strokes in the same order with the same points.
C17_ClearLeavesOtherLayers ==
    [][lastOp' = "clearActiveLayer"
        => (/\ OtherLayersSame(canvasState, canvasState', getActiveLayer(canvasState))
            /\ canvasState'.layers[getActiveLayer(canvasState)].strokes = <<>>)]_vars

\* Layer 2 was cleared of its stroke while layer 1 holds stroke 1.
C17_Witness ==
    /\ lastOp = "clearActiveLayer"
    /\ result = TRUE
    /\ strokeIdCounter = 2
    /\ Len(canvasState.layers) = 2
    /\ Len(canvasState.layers[1].strokes) = 1
    /\ canvasState.layers[2].strokes = <<>>
    /\ canvasState.activeLayerId = 2

LayerIds(cs) == {cs.layers[i].id : i \in 1..Len(cs.layers)}

\* C18: the canvas always has at least one layer and activeLayerId is the
\* id of one of its layers, also after undo() and redo(); setActiveLayer
\* called with an id that no layer has returns false, changes nothing and
\* emits nothing.  The call is refused for every id that is not present
\* (ids up to one beyond the newest generated), and a refused call is a
\* step that changes nothing.
C18_ActiveLayerExists ==
    /\ [](/\ Len(canvasState.layers) >= 1
          /\ canvasState.activeLayerId \in LayerIds(canvasState)
          /\ getActiveLayer(canvasState) # 0
          /\ \A layerId \in (0..(layerIdCounter + 1)) \ LayerIds(canvasState) :
                setActiveLayer(Eng, layerId) = [Eng EXCEPT !.result = FALSE])
    /\ [][(lastOp' = "setActiveLayer" /\ result' = FALSE)
           => (/\ UNCHANGED <<canvasState, history, historyIndex, currentStroke,
                              isDrawing, strokeIdCounter, layerIdCounter>>
               /\ emitted' = <<>>)]_vars
    /\ [][(lastOp' = "setActiveLayer" /\ result' = TRUE)
           => canvasState'.activeLayerId \in LayerIds(canvasState)]_vars

\* Layer 2 was created and then taken away by undo(); activating it fails.
C18_Witness ==
    /\ lastOp = "setActiveLayer"
    /\ result = FALSE
    /\ layerIdCounter = 2
    /\ Len(canvasState.layers) = 1
    /\ historyIndex < Len(history) - 1

\* C19: the layers of the live canvas have pairwise distinct ids and
\* pairwise distinct order values, whatever createLayer, undo and redo did
\* before; createLayer appends one layer whose id no layer of the canvas
\* has and whose order is greater than every order in the canvas, leaves
\* the other layers as they were and does not change the active layer.
C19_LayerOrderUnique ==
    /\ [](\A i \in 1..Len(canvasState.layers) : \A j \in 1..Len(canvasState.layers) :
            i # j => (/\ canvasState.layers[i].id # canvasState.layers[j].id
                      /\ canvasState.layers[i].order # canvasState.layers[j].order))
    /\ [][lastOp' = "createLayer"
           => LET n == Len(canvasState.layers)
                  new == canvasState'.layers[n + 1]
              IN  /\ Len(canvasState'.layers) = n + 1
                  /\ SubSeq(canvasState'.layers, 1, n) = canvasState.layers
                  /\ new.id \notin LayerIds(canvasState)
                  /\ new.id = result'
                  /\ \A i \in 1..n : new.order > canvasState.layers[i].order
                  /\ canvasState'.activeLayerId = canvasState.activeLayerId]_vars

\* Layer 2 was created and taken away by undo(); the layer created next
\* has id 3 and the order layer 2 had, and the snapshot with layer 2 is
\* still ahead in the history.
C19_Witness ==
    /\ lastOp = "createLayer"
    /\ result = 3
    /\ Len(canvasState.layers) = 2
    /\ canvasState.layers[2].id = 3
    /\ canvasState.layers[2].order = 1
    /\ historyIndex < Len(history) - 1
    /\ Len(history[Len(history)].state.layers) = 2

\* C20: getAllStrokes() returns the strokes of the layers whose visible
\* flag is true and of no other layer, the layers taken in ascending order
\* value and the strokes of a layer in insertion order.
VisibleStrokesInOrder(cs) ==
    LET shown == SelectSeq(getLayers(cs), LAMBDA l : l.visible)
    IN  Flatten([i \in 1..Len(shown) |-> shown[i].strokes])

C20_ListsVisibleStrokes ==
    getAllStrokes(canvasState) = VisibleStrokesInOrder(canvasState)

\* The callbacks subscribed to an event, in registration order.
Subscribed(event) ==
    IF event \in DOMAIN listeners THEN listeners[event] ELSE <<>>

\* The calls the events emitted by the step ask for: for each event in
\* turn, each callback subscribed to it when the step began, in
\* registration order.
ExpectedCalls ==
    Flatten([i \in 1..Len(emitted') |->
                [k \in 1..Len(Subscribed(emitted'[i][1])) |->
                    <<emitted'[i][1], Subscribed(emitted'[i][1])[k]>>]])

\* C21: during an operation, each emit calls every callback subscribed to
\* its event exactly once (once for each registration), in the order of
\* registration, and calls no callback of another event; the calls are
\* made inside the operation.
C21_EmitCallsSubscribersInOrder ==
    [][[k \in 1..Len(invoked') |-> <<invoked'[k].event, invoked'[k].callback>>]
         = ExpectedCalls]_vars

\* endStroke() called "first" and then "second", both subscribed to
\* stroke:completed, and not the callback subscribed to canvas:restored.
C21_Witness ==
    /\ lastOp = "endStroke"
    /\ emitted = << <<"stroke:completed", 1>> >>
    /\ DOMAIN listeners = ListenEvents
    /\ listeners["stroke:completed"] = <<"first", "second">>
    /\ listeners["canvas:restored"] = <<"first">>
    /\ invoked = << [event |-> "stroke:completed", callback |-> "first",
                     outcome |-> "returned"],
                    [event |-> "stroke:completed", callback |-> "second",
                     outcome |-> "returned"] >>

\* The engine with no listener subscribed.
Quiet == [Eng EXCEPT !.listeners = NoListeners]

\* What the operation makes of the engine state (the listeners and the log
\* of their calls set aside).
Outcome(e) ==
    [canvasState |-> e.canvasState, currentStroke |-> e.currentStroke,
     isDrawing |-> e.isDrawing, history |-> e.history,
     historyIndex |-> e.historyIndex, strokeIdCounter |-> e.strokeIdCounter,
     emitted |-> e.emitted, result |-> e.result]

\* The same of the state the engine is in.
Reached ==
    [canvasState |-> canvasState, currentStroke |-> currentStroke,
     isDrawing |-> isDrawing, history |-> history,
     historyIndex |-> historyIndex, strokeIdCounter |-> strokeIdCounter,
     emitted |-> emitted, result |-> result]

\* C22: a callback that throws is caught: the callbacks registered after it
\* are called all the same, no error leaves emit, and the operation ends
\* in the state and with the return value it has when nobody listens.
C22_ThrowingListenerIsolated ==
    [][/\ Len(invoked') = Len(ExpectedCalls)
       /\ \A k \in 1..Len(invoked') :
             invoked'[k].outcome = (IF Throws(invoked'[k].callback) THEN "caught"
                                    ELSE "returned")
       /\ lastOp' = "endStroke" => Reached' = Outcome(endStroke(Quiet))
       /\ lastOp' = "undo" => Reached' = Outcome(undo(Quiet))
       /\ lastOp' = "startStroke"
            => \E point \in StartInputs :
                  Reached' = Outcome(startStroke(Quiet, point))]_vars

\* undo() with a throwing callback subscribed to canvas:restored ahead of
\* another one: both were called and undo() returned true.
C22_Witness ==
    /\ lastOp = "undo"
    /\ result = TRUE
    /\ invoked = << [event |-> "canvas:restored", callback |-> "faulty",
                     outcome |-> "caught"],
                    [event |-> "canvas:restored", callback |-> "first",
                     outcome |-> "returned"] >>

\* The pressures of the interval [0, 1], in tenths.
UnitPressures == 0..10

\* The value computed from the base value at the pressure lies between a
\* tenth of the base and the base, at the ends of the range for the ends
\* of the pressure range.
WithinDynamicRange(value, base, pressure) ==
    /\ 10 * value >= base
    /\ value <= base
    /\ pressure = 0 => 10 * value = base
    /\ pressure = 10 => value = base

\* The pressure of the sample stored last in the stroke in progress.
LastPressure == currentStroke.points[Len(currentStroke.points)].pressure

C24_PressureClampedBeforeUse ==
    (lastOp \in {"startStroke", "addStrokePoint"} /\ currentStroke # Null)
      => /\ currentStroke.size
              = calculateDynamicSize(activeBrush, Max(0, Min(10, LastPressure)))
         /\ currentStroke.opacity
              = calculateDynamicOpacity(activeBrush, Max(0, Min(10, LastPressure)))
         /\ activeBrush.pressureSize
              => (10 * currentStroke.size >= activeBrush.size
                  /\ currentStroke.size <= activeBrush.size)
         /\ activeBrush.pressureOpacity
              => (10 * currentStroke.opacity >= activeBrush.opacity
                  /\ currentStroke.opacity <= activeBrush.opacity)

\* The multipliers the curves of the call give for its sample.
PressureMultiplier ==
    brushDynamics[args.dynamics].pressureCurve[
        BucketOf(args.point.pressure, 8) + 1]

VelocityMultiplier ==
    brushDynamics[args.dynamics].velocityCurve[
        BucketOf(args.point.velocity, 8) + 1]

\* C25: with the 8-entry curves, for a sample whose pressure and velocity
\* are in [0, 1], both indexes floor(value * 7) are within 0..7 and both
\* the size and the opacity are base * pressureCurve[floor(pressure * 7)]
\* * velocityCurve[floor(velocity * 7)].
C25_CurveProductOfBothMultipliers ==
    (/\ lastOp \in {"calculateBrushSize", "calculateBrushOpacity"}
     /\ args.point.pressure \in UnitPressures
     /\ args.point.velocity \in 0..10)
      => /\ BucketOf(args.point.pressure, 8) \in 0..7
         /\ BucketOf(args.point.velocity, 8) \in 0..7
         /\ result # NaN
         /\ lastOp = "calculateBrushOpacity"
              => result.value = args.base * PressureMultiplier * VelocityMultiplier
         /\ lastOp = "calculateBrushSize"
              => 100 * result.value
                   = args.base * PressureMultiplier * VelocityMultiplier

\* The part of C25 that the opacity alone satisfies.
C25_OpacityIsCurveProduct ==
    (/\ lastOp = "calculateBrushOpacity"
     /\ args.point.pressure \in UnitPressures
     /\ args.point.velocity \in 0..10)
      => /\ BucketOf(args.point.pressure, 8) \in 0..7
         /\ BucketOf(args.point.velocity, 8) \in 0..7
         /\ result = Number(args.base * PressureMultiplier * VelocityMultiplier)

\* C26: the active brush is a working copy.  Whatever setBrush,
\* setBrushSize and setBrushOpacity calls are made and whatever the host
\* writes into an object that getActiveBrush() returned, every catalog
\* entry keeps the values it had, and a write into the returned object
\* leaves the active brush of the engine as it was.
C26_ActiveBrushIsWorkingCopy ==
    [][/\ brushObjects'.presets = Presets
       /\ lastOp' = "mutateReturnedBrush" => activeBrush' = activeBrush]_vars

\* brush_pen was made active and resized to 25; the host then wrote size 7
\* into the object it got from getActiveBrush(): the engine still has 25
\* and the catalog entry still has 12.
C26_Witness ==
    /\ lastOp = "mutateReturnedBrush"
    /\ activeBrush.id = "brush_pen"
    /\ activeBrush.size = 2500
    /\ brushObjects.handout.id = "brush_pen"
    /\ brushObjects.handout.size = 700
    /\ brushObjects.presets["brush_pen"].size = 1200

\* stored is raw blended with previous by the smoothing factor (in tenths):
\* stored = previous + (raw - previous) * (1 - smoothingFactor) for x and y,
\* the pressure and the timestamp those of raw.
Blended(stored, raw, previous, smoothingFactor) ==
    /\ 10 * (stored.x - previous.x) = (raw.x - previous.x) * (10 - smoothingFactor)
    /\ 10 * (stored.y - previous.y) = (raw.y - previous.y) * (10 - smoothingFactor)
    /\ stored.pressure = raw.pressure
    /\ stored.timestamp = raw.timestamp
    /\ smoothingFactor = 0 => (stored.x = raw.x /\ stored.y = raw.y)
    /\ smoothingFactor = 10 => (stored.x = previous.x /\ stored.y = previous.y)

C27_WitnessStill ==
    /\ lastOp = "addStrokePoint"
    /\ currentStroke # Null
    /\ activeBrush.id = "custom_still"
    /\ currentStroke.points
         = << [x |-> 0, y |-> 0, pressure |-> 5, timestamp |-> 0],
              [x |-> 0, y |-> 0, pressure |-> 3, timestamp |-> 10] >>

\* The distance between two points is below the threshold of 1.5 units.
NearDuplicate(a, b) ==
    (a.x - b.x) * (a.x - b.x) + (a.y - b.y) * (a.y - b.y) < 150 * 150

\* C28: an addStrokePoint whose raw point is closer than 1.5 units to the
\* last point of the stroke in progress appends nothing, so that a
\* committed stroke never holds a point made from such a sample.
C28_NearDuplicateRejected ==
    [][(lastOp' = "addStrokePoint" /\ isDrawing /\ currentStroke # Null)
         => \A raw \in MoveInputs :
               (/\ Reached' = Outcome(addStrokePoint(Eng, raw))
                /\ NearDuplicate(raw, currentStroke.points[Len(currentStroke.points)]))
                 => currentStroke'.points = currentStroke.points]_vars

\* C29: an undo() called right after endStroke() committed a stroke
\* returns true and leaves the canvas without that stroke, the first stroke
\* of a fresh engine included.
C29_CompletedStrokeCanBeUndone ==
    [][(/\ lastOp = "endStroke"
        /\ Len(emitted) = 1
        /\ emitted[1][1] = "stroke:completed"
        /\ lastOp' = "undo")
         => /\ result' = TRUE
            /\ emitted[1][2] \notin {s.id : s \in StrokesOf(canvasState')}]_vars

\* C30: in every Idle state in which undo() returns true, undo() followed
\* by redo() gives back the live canvas as it was: the same layers, strokes
\* and points.
C30_UndoRedoRoundTrip ==
    (~isDrawing /\ undo(Eng).result = TRUE)
      => /\ redo(undo(Eng)).result = TRUE
         /\ SemanticData(redo(undo(Eng)).canvasState) = SemanticData(canvasState)

\* The layers that hold the stroke in progress once endStroke() has run on
\* the engine e.
CommitTarget(e) ==
    LET layers == endStroke(e).canvasState.layers
    IN  {layers[i].id : i \in {j \in 1..Len(layers) :
            \E k \in 1..Len(layers[j].strokes) :
                layers[j].strokes[k].id = e.currentStroke.id}}

\* C31: the stroke goes to the layer that was active when startStroke was
\* called: right after startStroke the layer endStroke() would commit to is
\* the active one, and a setActiveLayer made while the stroke is in
\* progress does not change the layer endStroke() will commit to.
C31_CommitToLayerOfStart ==
    [][/\ (lastOp' = "startStroke" /\ isDrawing')
            => CommitTarget(Eng') = {canvasState'.activeLayerId}
       /\ (lastOp' = "setActiveLayer" /\ isDrawing /\ currentStroke # Null)
            => CommitTarget(Eng') = CommitTarget(Eng)]_vars

\* How many times the stroke of the given id is held by the layers of cs.
TimesOnCanvas(cs, id) ==
    Len(SelectSeq(getAllStrokes(cs), LAMBDA s : s.id = id))

\* C32: with callbacks subscribed to stroke:completed that call endStroke()
\* or startStroke() from inside the notification, a call that completes
\* the stroke in progress (endStroke, or startStroke ending it first)
\* leaves that stroke on the canvas exactly once, and every nested call
\* returns: no call runs out of stack and no error leaves the handler.
C32_ReentrantListenerIsSafe ==
    [][(/\ lastOp' \in {"endStroke", "startStroke"}
        /\ isDrawing
        /\ currentStroke # Null)
         => /\ TimesOnCanvas(canvasState', currentStroke.id) = 1
            /\ \A k \in 1..Len(invoked') : invoked'[k].outcome = "returned"
            /\ result' = NoResult]_vars

\* How many elements of the sequence have the given value of the field.
CountOf(array, callback) == Len(SelectSeq(array, LAMBDA c : c = callback))

CallsOf(calls, callback) == Len(SelectSeq(calls, LAMBDA c : c.callback = callback))

\* C33: when callbacks unsubscribe themselves or an earlier callback during
\* the emit of stroke:completed, every callback none of whose registrations
\* was removed is called during that emit once for each registration it
\* had when the emit began.
C33_UnsubscribeDuringEmitSkipsNobody ==
    [][(/\ lastOp' = "endStroke"
        /\ isDrawing
        /\ currentStroke # Null
        /\ "stroke:completed" \in DOMAIN listeners)
         => \A callback \in UnsubscribingCallbacks \cup {"first", "second"} :
               CountOf(listeners'["stroke:completed"], callback)
                   = CountOf(listeners["stroke:completed"], callback)
                 => CallsOf(invoked', callback)
                      = CountOf(listeners["stroke:completed"], callback)]_vars

\* C34: the unsubscribe function that on(event, handler) has just returned
\* removes the registration just made (the last element of the array) and
\* no other; an unsubscribe call takes away at most one registration and
\* leaves the others, those of the same handler included, in their order;
\* and calling the same unsubscribe function again changes nothing.
C34_UnsubscribeRemovesOwnRegistration ==
    [][/\ lastOp' = "on"
            => unsubscribe(Eng', result'[1], result'[2]).listeners[result'[1]]
                 = SubSeq(listeners'[result'[1]], 1, Len(listeners'[result'[1]]) - 1)
       /\ (lastOp' = "unsubscribe" /\ args'[1] \in DOMAIN listeners)
            => /\ \A event \in DOMAIN listeners \ {args'[1]} :
                     listeners'[event] = listeners[event]
               /\ \A callback \in Callbacks \ {args'[2]} :
                     CountOf(listeners'[args'[1]], callback)
                        = CountOf(listeners[args'[1]], callback)
               /\ CountOf(listeners'[args'[1]], args'[2])
                     = Max(0, CountOf(listeners[args'[1]], args'[2]) - 1)
               /\ unsubscribe(Eng', args'[1], args'[2]).listeners = listeners']_vars

\* C35: the history position is -1 exactly when the history is empty and
\* otherwise an index of the stack; right after a checkpoint it is the
\* index of the newest entry; and an undo() or redo() that returns true
\* has restored the entry at the position it moved to.
C35_PositionWithinHistory ==
    /\ []((historyIndex = -1) <=> (history = <<>>))
    /\ [](history # <<>> => historyIndex \in 0..(Len(history) - 1))
    /\ [][saves' > saves => historyIndex' = Len(history') - 1]_vars
    /\ [][(lastOp' \in {"undo", "redo"} /\ result' = TRUE)
            => /\ historyIndex' + 1 \in DOMAIN history'
               /\ SemanticData(canvasState')
                    = SemanticData(history'[historyIndex' + 1].state)]_vars

\* The checkpoint that made the stack longer than maxHistorySize: the
\* oldest entry went and the position is that of the newest of the 30.
C35_Witness ==
    /\ lastOp \in {"startStroke", "clearCanvas"}
    /\ saves = 3
    /\ Len(history) = maxHistorySize
    /\ historyIndex = maxHistorySize - 1

\* The new engine: no entry and position -1.
C35_WitnessEmpty ==
    /\ history = <<>>
    /\ historyIndex = -1

\* C36: undo() and redo() leave the session alone (isDrawing and the
\* current stroke, with its id and points, are what they were), and the
\* endStroke() that follows an undo or redo made while Drawing appends the
\* stroke in progress to the active layer of the restored canvas and
\* leaves the other layers as restored.
C36_UndoRedoLeaveSession ==
    /\ [][lastOp' \in {"undo", "redo"}
            => (isDrawing' = isDrawing /\ currentStroke' = currentStroke)]_vars
    /\ [][(/\ lastOp \in {"undo", "redo"}
           /\ result = TRUE
           /\ isDrawing
           /\ currentStroke # Null
           /\ lastOp' = "endStroke")
            => LET a == getActiveLayer(canvasState)
               IN  /\ a # 0
                   /\ OtherLayersSame(canvasState, canvasState', a)
                   /\ OneStrokeAppended(canvasState, canvasState', a,
                                        Len(currentStroke.points))
                   /\ LET after == canvasState'.layers[a].strokes
                      IN  /\ after[Len(after)].id = currentStroke.id
                          /\ after[Len(after)].points = currentStroke.points
                   /\ ~isDrawing'
                   /\ currentStroke' = Null]_vars

\* An undo() that returned true while a stroke of two points was in
\* progress: the engine is still Drawing that stroke.
C36_Witness ==
    /\ lastOp = "undo"
    /\ result = TRUE
    /\ isDrawing
    /\ currentStroke # Null
    /\ Len(currentStroke.points) = 2

\* ------------------------------------------------------------------ C37
\* The step is an initialize() call of the host.
InitializeCalled == Len(initializeCalls') = Len(initializeCalls) + 1

\* What the initialize() call of the step returned.
Returned == initializeCalls'[Len(initializeCalls')]

\* The initialize() call of the step, made while the activation id was in
\* progress, returned the promise of that activation and started no other.
JoinedFlight(id) ==
    /\ flights' = flights
    /\ Returned.promise = id

\* The initialize() call of the step returned the cached result and invoked
\* no init function.
ServedFromCache ==
    /\ flights' = flights
    /\ Returned.promise = NoPromise
    /\ Returned.value = lastInitializationResult

\* C37: an initialize() call made while a performInitialization() is in
\* progress returns the promise of that activation and starts no second
\* one, and an initialize() call made after a successful completion, with
\* no cleanup() since, returns the cached result and runs no system
\* initializer.
C37_SingleFlightAndCached ==
    [][InitializeCalled =>
           /\ \A id \in DOMAIN flights :
                  flights[id].pc # "done" => JoinedFlight(id)
           /\ isReady => ServedFromCache]_vars

\* What the code does: the same for the activation that
\* this.initializationPromise refers to while the state is 'initializing',
\* which a cleanup() call puts an end to.
C37_SingleFlightUntilCleanup ==
    [][InitializeCalled =>
           /\ (initializationPromise # NoPromise
                  /\ initializationState = "initializing")
                  => JoinedFlight(initializationPromise)
           /\ (cleanups = 0 /\ \E id \in DOMAIN flights : flights[id].pc # "done")
                  => JoinedFlight(initializationPromise)
           /\ isReady => ServedFromCache]_vars

\* ------------------------------------------------------------------ C38
\* The activation id is inside the initializeSystem call of system number i.
InCall(id, i) ==
    /\ id \in DOMAIN flights
    /\ flights[id].system = i
    /\ flights[id].pc \in {"init", "delay"}

\* The activation id has left the initializeSystem call of system number i.
PastCall(id, i) ==
    /\ id \in DOMAIN flights
    /\ flights[id].system > i

\* The attempts of each initializeSystem call made so far are within the
\* bound of the system, none follows a success, and a call that found the
\* breaker open made none and reported the system as failed.
AttemptsBounded ==
    \A id \in DOMAIN flights : \A i \in DOMAIN Systems :
        LET flight == flights[id]
            systemName == Systems[i].name
            started == \E k \in DOMAIN flight.initializedSystems :
                           flight.initializedSystems[k] = systemName
            reported == \E k \in DOMAIN flight.failedSystems :
                            flight.failedSystems[k] = systemName
        IN  /\ flight.invocations[systemName]
                   <= (IF Systems[i].isCritical THEN retryAttempts + 1 ELSE 2)
            /\ started => flight.invocations[systemName]
                              = flight.failures[systemName] + 1
            /\ flight.entry[systemName] >= circuitBreakerThreshold
                   => /\ flight.invocations[systemName] = 0
                      /\ reported

\* C38: every initializeSystem call ends, having invoked the init function
\* at most retryAttempts + 1 times for a critical system and at most twice
\* for a non-critical one, with no invocation after the first success and no
\* invocation at all, the system being reported as failed, when the failure
\* count it read had reached circuitBreakerThreshold.
C38_BoundedAttempts ==
    /\ []AttemptsBounded
    /\ \A id \in 1..MaxCalls : \A i \in DOMAIN Systems :
           InCall(id, i) ~> PastCall(id, i)

\* One activation used up the retryAttempts + 1 attempts of the critical
\* system and the two of the non-critical one, and the next one found the
\* breaker of the critical system open.
C38_Witness ==
    \E id \in DOMAIN flights : \E next \in DOMAIN flights :
        /\ flights[id].invocations["DataManager"] = retryAttempts + 1
        /\ flights[id].failures["DataManager"] = retryAttempts + 1
        /\ flights[id].invocations["BrushSystem"] = 2
        /\ flights[next].entry["DataManager"] >= circuitBreakerThreshold
        /\ flights[next].invocations["DataManager"] = 0
        /\ flights[next].pc = "done"

\* ------------------------------------------------------------------ C39
\* The step is a failed attempt of the activation id at the system.
AttemptFailed(id, systemName) ==
    flights'[id].failures[systemName] = flights[id].failures[systemName] + 1

\* The step is a successful attempt of the activation id at the system.
AttemptSucceeded(id, systemName) ==
    Len(flights'[id].initializedSystems) = Len(flights[id].initializedSystems) + 1
    /\ flights'[id].initializedSystems[Len(flights'[id].initializedSystems)]
           = systemName

\* C39: each failed attempt to initialize a system raises the failure count
\* of that system by one, so that a call in which all k attempts fail raises
\* it by k, and a successful attempt resets the count.
C39_BreakerCountsFailedAttempts ==
    [][\A id \in DOMAIN flights : \A systemName \in SystemNames :
           /\ AttemptFailed(id, systemName)
                  => failureCount'[systemName] = failureCount[systemName] + 1
           /\ AttemptSucceeded(id, systemName)
                  => failureCount'[systemName] = 0]_vars

\* What the code does instead: every failed attempt of a call writes the
\* count the call read when it began plus one, so a call raises the count
\* by one however many of its attempts fail.
C39_CountsFailedCalls ==
    [][\A id \in DOMAIN flights : \A systemName \in SystemNames :
           /\ AttemptFailed(id, systemName)
                  => failureCount'[systemName]
                         = flights[id].entry[systemName] + 1
           /\ AttemptSucceeded(id, systemName)
                  => failureCount'[systemName] = 0]_vars

\* ------------------------------------------------------------------ C40
\* The initializer is as cleanup() leaves it.
Cleared ==
    /\ initializationState = "pending"
    /\ lastInitializationResult = Null
    /\ ~isReady

\* No performInitialization() activation is under way.
NothingInFlight == \A id \in DOMAIN flights : flights[id].pc = "done"

\* C40: cleanup() leaves the initializer in state 'pending' with no cached
\* result and isReady() false, and after a cleanup() it stays so until the
\* host calls initialize() again, also when an initialize() was in flight
\* when cleanup() was called.
C40_CleanupResetsUntilInitialize ==
    [][/\ cleanups' = cleanups + 1 => Cleared'
       /\ (cleanups > 0 /\ Cleared /\ ~InitializeCalled) => Cleared']_vars

\* What the code does: the same, as long as no activation is in flight.
C40_CleanupResetsWhenQuiescent ==
    [][/\ cleanups' = cleanups + 1 => Cleared'
       /\ (cleanups > 0 /\ Cleared /\ ~InitializeCalled /\ NothingInFlight)
              => Cleared']_vars

====
